---------------------------- MODULE Spec2Model ----------------------------
(***************************************************************************)
(* Cite-check step of brief_analyzer (steps/s5_citecheck.py): extraction   *)
(* of citation-proposition pairs per brief, grouping by authority file,    *)
(* per-authority verification with retries, merge-back of verdicts and     *)
(* the per-brief report.                                                   *)
(*                                                                         *)
(* Python strings are sequences of one-character strings, so that `in`,    *)
(* split, strip, lower and replace are computed as Python computes them.   *)
(***************************************************************************)
EXTENDS Integers, Sequences, FiniteSets, TLC

(***************************************************************************)
(* Python string primitives                                                *)
(***************************************************************************)
Null == "None"

Min(a, b) == IF a < b THEN a ELSE b

\* str.lower() on the alphabet used by the corpus and the mentions
LowerChar(c) ==
  CASE c = "A" -> "a" [] c = "G" -> "g" [] c = "R" -> "r" [] c = "S" -> "s"
    [] c = "T" -> "t" [] c = "U" -> "u" [] c = "W" -> "w" [] c = "L" -> "l"
    [] c = "X" -> "x" [] c = "J" -> "j" [] c = "K" -> "k" [] c = "P" -> "p"
    [] c = "O" -> "o" [] c = "N" -> "n" [] c = "D" -> "d" [] c = "B" -> "b"
    [] c = "C" -> "c" [] c = "E" -> "e" [] c = "I" -> "i"
    [] OTHER -> c

Lower(s) == [i \in 1..Len(s) |-> LowerChar(s[i])]

\* s.startswith(p) at 1-based offset i
MatchAt(p, s, i) ==
  /\ i + Len(p) - 1 <= Len(s)
  /\ \A k \in 1..Len(p) : s[i + k - 1] = p[k]

\* p in s
IsSubstr(p, s) == \E i \in 1..(Len(s) - Len(p) + 1) : MatchAt(p, s, i)

\* s.find(p) as a 1-based offset, 0 when absent
Find(p, s) ==
  IF IsSubstr(p, s)
  THEN CHOOSE i \in 1..(Len(s) - Len(p) + 1) :
         /\ MatchAt(p, s, i)
         /\ \A j \in 1..(i - 1) : ~MatchAt(p, s, j)
  ELSE 0

Drop(s, n) == SubSeq(s, n + 1, Len(s))

\* s.split(sep) for a non-empty separator
RECURSIVE SplitOn(_, _)
SplitOn(s, sep) ==
  LET i == Find(sep, s) IN
    IF i = 0 THEN <<s>>
    ELSE <<SubSeq(s, 1, i - 1)>> \o SplitOn(Drop(s, i + Len(sep) - 1), sep)

\* s.replace(old, new)
RECURSIVE Replace(_, _, _)
Replace(s, old, new) ==
  LET i == Find(old, s) IN
    IF i = 0 THEN s
    ELSE SubSeq(s, 1, i - 1) \o new \o Replace(Drop(s, i + Len(old) - 1), old, new)

IsSpace(c) == c = " "

\* s.lstrip(), s.rstrip(), s.strip()
RECURSIVE LStrip(_)
LStrip(s) == IF s # <<>> /\ IsSpace(s[1]) THEN LStrip(Drop(s, 1)) ELSE s

RECURSIVE RStrip(_)
RStrip(s) ==
  IF s # <<>> /\ IsSpace(s[Len(s)]) THEN RStrip(SubSeq(s, 1, Len(s) - 1)) ELSE s

Strip(s) == LStrip(RStrip(s))

\* w.rstrip(".,;:")
RECURSIVE RStripPunct(_)
RStripPunct(s) ==
  IF s # <<>> /\ s[Len(s)] \in {".", ",", ";", ":"}
  THEN RStripPunct(SubSeq(s, 1, Len(s) - 1))
  ELSE s

\* s.split(): the maximal runs of non-whitespace characters
RECURSIVE SplitWs(_)
SplitWs(s) ==
  LET t == LStrip(s) IN
    IF t = <<>> THEN <<>>
    ELSE LET i == Find(<<" ">>, t) IN
           IF i = 0 THEN <<t>>
           ELSE <<SubSeq(t, 1, i - 1)>> \o SplitWs(Drop(t, i))

(***************************************************************************)
(* The authority corpus and the citation mentions of the model             *)
(***************************************************************************)
\* authorities/*.txt: "Abc v. State, 1 R 5.txt" and "Gon v. State.txt"

\* auth_files: {f.name: text} filled from sorted(auth_txts), so in name order
auth_files ==
  << [ fname |-> <<"A", "b", "c", " ", "v", ".", " ", "S", "t", "a", "t", "e", ",", " ", "1", " ", "R", " ", "5", ".", "t", "x", "t">>,
       text |-> <<"A", "b", "c", " ", "v", ".", " ", "S", "t", "a", "t", "e", ",", " ", "1", " ", "R", " ", "5", " ", "o", "p">> ],
     [ fname |-> <<"G", "o", "n", " ", "v", ".", " ", "S", "t", "a", "t", "e", ".", "t", "x", "t">>,
       text |-> <<"G", "o", "n", " ", "2", " ", "R", " ", "7", " ", "o", "p">> ] >>

AuthIds == 1..Len(auth_files)

\* the None of "no matching authority file"
NoFile == 0

NameAbc == <<"A", "b", "c", " ", "v", ".", " ", "S", "t", "a", "t", "e">>
NameGon == <<"G", "o", "n", " ", "v", ".", " ", "S", "t", "a", "t", "e">>
NameGnz == <<"G", "n", "z", " ", "v", ".", " ", "S", "t", "a", "t", "e">>
NameXyz == <<"X", "y", "z", " ", "v", ".", " ", "J", "o">>

\* citation-proposition pairs as the extraction prompt asks for them
PairAbc == [case_name |-> NameAbc, volume |-> <<"1">>, reporter |-> <<"R">>,
            page |-> <<"5">>, purpose |-> "supporting"]
PairGon == [case_name |-> NameGon, volume |-> <<"2">>, reporter |-> <<"R">>,
            page |-> <<"7">>, purpose |-> "background"]
PairXyz == [case_name |-> NameXyz, volume |-> <<"9">>, reporter |-> <<"R">>,
            page |-> <<"9">>, purpose |-> "supporting"]

(***************************************************************************)
(* _find_authority_file                                                    *)
(***************************************************************************)
\* text[:2000]
HeaderChars == 2000

Header(text) == SubSeq(text, 1, Min(HeaderChars, Len(text)))

\* the words of one party that qualify as name keywords
RECURSIVE CleanWords(_)
CleanWords(ws) ==
  IF ws = <<>> THEN <<>>
  ELSE LET clean == Lower(RStripPunct(Head(ws))) IN
         (IF Len(clean) > 2
              /\ clean \notin { <<"s", "t", "a", "t", "e">>, <<"t", "h", "e">>,
                                <<"u", "n", "i", "t", "e", "d">>,
                                <<"s", "t", "a", "t", "e", "s">> }
          THEN <<clean>> ELSE <<>>)
           \o CleanWords(Tail(ws))

RECURSIVE PartsWords(_)
PartsWords(parts) ==
  IF parts = <<>> THEN <<>>
  ELSE CleanWords(SplitWs(Strip(Head(parts)))) \o PartsWords(Tail(parts))

\* name_words
NameWords(case_name) ==
  IF case_name = <<>> THEN <<>>
  ELSE PartsWords(SplitOn(Replace(case_name, <<" ", "v", ".", " ">>, <<" ", "v", " ">>),
                          <<" ", "v", " ">>))

\* the keys of auth_files in dictionary order
AuthOrder == [i \in 1..Len(auth_files) |-> i]

\* "disambiguate by case name": the first candidate whose lower-cased file
\* name contains a name word, else the first candidate
Disambiguate(matches, name_words) ==
  IF Len(matches) = 1 THEN matches[1]
  ELSE LET named == SelectSeq(matches,
                       LAMBDA f : \E k \in 1..Len(name_words) :
                                    IsSubstr(name_words[k], Lower(auth_files[f].fname)))
       IN IF name_words # <<>> /\ named # <<>> THEN named[1] ELSE matches[1]

\* first_party.lower().split()[-1]
FirstLower(case_name) ==
  LET first_party ==
        Strip(SplitOn(SplitOn(case_name, <<" ", "v", ".">>)[1], <<" ", "v", " ">>)[1])
      ws == SplitWs(Lower(first_party))
  IN IF first_party = <<>> THEN <<>> ELSE ws[Len(ws)]

ContentHit(volume, reporter, page, f) ==
  /\ volume # <<>> /\ reporter # <<>> /\ page # <<>>
  /\ IF reporter = <<"W", "L">>
     THEN IsSubstr(<<"W", "L", " ">> \o page, Header(auth_files[f].text))
     ELSE IsSubstr(volume \o <<" ">> \o reporter \o <<" ">> \o page,
                   Header(auth_files[f].text))

_find_authority_file(case_name, volume, reporter, page) ==
  LET cite_pattern ==
        IF reporter # <<"W", "L">> THEN volume \o <<" ">> \o reporter \o <<" ">> \o page
        ELSE page
      name_words == NameWords(case_name)
      InName(f) == IsSubstr(cite_pattern, auth_files[f].fname)
      cite_matches == SelectSeq(AuthOrder, InName)
      first_lower == FirstLower(case_name)
      ByParty(f) == IsSubstr(first_lower, Lower(auth_files[f].fname))
      party_matches == SelectSeq(AuthOrder, ByParty)
      InContent(f) == ContentHit(volume, reporter, page, f)
      content_matches == SelectSeq(AuthOrder, InContent)
  IN IF cite_matches # <<>> THEN Disambiguate(cite_matches, name_words)
     ELSE IF case_name # <<>> /\ first_lower # <<>> /\ party_matches # <<>>
          THEN party_matches[1]
     ELSE IF content_matches # <<>> THEN Disambiguate(content_matches, name_words)
     ELSE NoFile

(***************************************************************************)
(* _format_report: one entry per pair, routed to one of five sections      *)
(***************************************************************************)
\* a key the service left out of a verdict object (dict.get falls back)
Absent == "<absent>"

Get(value, default) == IF value = Absent THEN default ELSE value

NoArg == <<>>

\* the explanation texts the step itself produces
ServiceText == [text |-> "explanation written by the service", arg |-> NoArg]
NoResultText == [text |-> "No verification result returned", arg |-> NoArg]
NoFileFoundFor(citation) == [text |-> "No authority file found for", arg |-> citation]

Citation(pair) ==
  pair.case_name \o <<",", " ">> \o pair.volume \o <<" ">> \o pair.reporter
    \o <<" ">> \o pair.page

\* the body of the loop up to the construction of entry
Entry(pair) ==
  LET has == pair.verdict # <<>>
      verdict == pair.verdict[1]
      severity0 == IF has THEN Get(verdict.severity, "Error") ELSE "Error"
      explanation0 == IF has THEN verdict.explanation ELSE NoResultText
      relevance == IF has THEN Get(verdict.relevance, Null) ELSE Null
      missing == pair.authority_file = NoFile
  IN [ citation |-> Citation(pair),
       purpose |-> pair.purpose,
       severity |-> IF missing THEN "Critical" ELSE severity0,
       explanation |-> IF missing THEN NoFileFoundFor(Citation(pair)) ELSE explanation0,
       auth_file |-> pair.authority_file,
       relevance |-> relevance,
       src |-> pair.src ]

\* the branches of "Route to appropriate section", each with the negation
\* of the branches before it
ToAdvocacy(e) == e.severity = "Advocacy"

ToCritiques(e) ==
  /\ ~ToAdvocacy(e)
  /\ e.severity \in {"Critique-Valid", "Critique-Questionable"}

ToRelevanceGaps(e) ==
  /\ ~ToAdvocacy(e) /\ ~ToCritiques(e)
  /\ e.relevance \in {"analogous", "off_point"} /\ e.severity = "Verified"

ToAccuracy(e) ==
  /\ ~ToAdvocacy(e) /\ ~ToCritiques(e) /\ ~ToRelevanceGaps(e)
  /\ e.severity \in {"Minor", "Moderate", "Significant", "Critical", "Error"}

\* the last branch written as a test for the "Verified" grade
ToVerifiedByGrade(e) ==
  ~ToAdvocacy(e) /\ ~ToCritiques(e) /\ ~ToRelevanceGaps(e) /\ e.severity = "Verified"

ToVerified(e) ==
  ~ToAdvocacy(e) /\ ~ToCritiques(e) /\ ~ToRelevanceGaps(e) /\ ~ToAccuracy(e)

_format_report(brief_name, pairs) ==
  LET entries == [i \in 1..Len(pairs) |-> Entry(pairs[i])] IN
    [ brief_name |-> brief_name,
      total |-> Len(pairs),
      entries |-> entries,
      accuracy_issues |-> SelectSeq(entries, ToAccuracy),
      relevance_gaps |-> SelectSeq(entries, ToRelevanceGaps),
      advocacy_targets |-> SelectSeq(entries, ToAdvocacy),
      critiques |-> SelectSeq(entries, ToCritiques),
      verified_items |-> SelectSeq(entries, ToVerified) ]

(***************************************************************************)
(* Step 5 (steps/s5_verify_authorities.py): the authority files at hand    *)
(***************************************************************************)
IsDigit(c) == c \in {"0", "1", "2", "3", "4", "5", "6", "7", "8", "9"}

IsAlpha(c) == ~IsDigit(c) /\ c \notin {" ", ".", ",", ";", ":", "-", "'"}

\* a character of \w
IsWord(c) == IsDigit(c) \/ IsAlpha(c)

\* s.isdigit()
IsDigits(s) == s # <<>> /\ \A i \in 1..Len(s) : IsDigit(s[i])

\* w.rstrip(".,")
RECURSIVE RStripDotComma(_)
RStripDotComma(s) ==
  IF s # <<>> /\ s[Len(s)] \in {".", ","}
  THEN RStripDotComma(SubSeq(s, 1, Len(s) - 1))
  ELSE s

\* s.split(sep, 1)
SplitOnce(s, sep) ==
  LET i == Find(sep, s) IN
    IF i = 0 THEN <<s>> ELSE <<SubSeq(s, 1, i - 1), Drop(s, i + Len(sep) - 1)>>

\* re.search(r'\b' + re.escape(p) + r'\b', s) for a p of word characters
SearchWord(p, s) ==
  \E i \in 1..(Len(s) - Len(p) + 1) :
    /\ MatchAt(p, s, i)
    /\ i = 1 \/ ~IsWord(s[i - 1])
    /\ i + Len(p) - 1 = Len(s) \/ ~IsWord(s[i + Len(p)])

\* further files of authorities/: a companion case that shares the reporter
\* page of file 1, a file named by its Westlaw number, and two files named
\* by their parties only

\* every file the authorities directory may hold; files 1 and 2 are those of
\* the cite-check run
Docs ==
  auth_files \o
  << \* "Kim v. State, 1 R 5.txt": "Kim 3 R 3"
     [ fname |-> <<"K", "i", "m", " ", "v", ".", " ", "S", "t", "a", "t", "e", ",", " ", "1", " ", "R", " ", "5", ".", "t", "x", "t">>,
       text |-> <<"K", "i", "m", " ", "3", " ", "R", " ", "3">> ],
     \* "20 WL 77.txt": "Jon 3 R 3 P-1"
     [ fname |-> <<"2", "0", " ", "W", "L", " ", "7", "7", ".", "t", "x", "t">>,
       text |-> <<"J", "o", "n", " ", "3", " ", "R", " ", "3", " ", "P", "-", "1">> ],
     \* "Abc v. Jon.txt": "op 1 R 5 4 Po 8 20 WL 77"
     [ fname |-> <<"A", "b", "c", " ", "v", ".", " ", "J", "o", "n", ".", "t", "x", "t">>,
       text |-> <<"o", "p", " ", "1", " ", "R", " ", "5", " ", "4", " ", "P", "o", " ", "8", " ", "2", "0", " ", "W", "L", " ", "7", "7">> ],
     \* "Abc v. Kim.txt": "Kim op"
     [ fname |-> <<"A", "b", "c", " ", "v", ".", " ", "K", "i", "m", ".", "t", "x", "t">>,
       text |-> <<"K", "i", "m", " ", "o", "p">> ] >>

(***************************************************************************)
(* _extract_match_names                                                    *)
(***************************************************************************)
GENERIC_PARTIES ==
  { <<"u", "n", "i", "t", "e", "d", " ", "s", "t", "a", "t", "e", "s">>,
    <<"p", "e", "o", "p", "l", "e">>, <<"s", "t", "a", "t", "e">>,
    <<"c", "o", "m", "m", "o", "n", "w", "e", "a", "l", "t", "h">>,
    <<"c", "o", "m">>, <<"f", "l", "o", "r", "i", "d", "a">>,
    <<"k", "a", "n", "s", "a", "s">>,
    <<"m", "i", "n", "n", "e", "s", "o", "t", "a">>,
    <<"t", "e", "x", "a", "s">>, <<"i", "l", "l", "i", "n", "o", "i", "s">>,
    <<"c", "a", "l", "i", "f", "o", "r", "n", "i", "a">> }

PARTY_NOISE_WORDS ==
  { <<"n", "o">>, <<"i", "n", "c">>, <<"c", "o">>, <<"c", "o", "r", "p">>,
    <<"l", "t", "d">>, <<"d", "i", "s", "t">>, <<"e", "t">>, <<"a", "l">> }

\* back: the cleaned words the backward walk does not skip; forth: those
\* the forward walk accepts
_best_word(party) ==
  LET words == SplitWs(party)
      cleaned == [i \in 1..Len(words) |-> Lower(RStripPunct(words[i]))]
      back == SelectSeq(cleaned, LAMBDA clean : ~IsDigits(clean) /\ Len(clean) > 1
                                                /\ clean \notin PARTY_NOISE_WORDS)
      forth == SelectSeq(cleaned, LAMBDA clean : Len(clean) > 1 /\ ~IsDigits(clean))
  IN IF back # <<>> THEN back[Len(back)]
     ELSE IF forth # <<>> THEN forth[1]
     ELSE <<>>

\* the first party always first, whatever it is
FirstPartyFirst(case_name) ==
  LET parts == IF IsSubstr(<<" ", "v", ".", " ">>, case_name)
               THEN SplitOnce(case_name, <<" ", "v", ".", " ">>)
               ELSE IF IsSubstr(<<" ", "v", " ">>, case_name)
               THEN SplitOnce(case_name, <<" ", "v", " ">>)
               ELSE <<case_name>>
      first_party == Strip(parts[1])
      second_party == IF Len(parts) > 1 THEN Strip(parts[2]) ELSE <<>>
      is_generic == RStripDotComma(Lower(first_party)) \in GENERIC_PARTIES
      fp == _best_word(first_party)
      sp == _best_word(second_party)
      fps == IF fp # <<>> THEN <<fp>> ELSE <<>>
      sps == IF second_party # <<>> /\ sp # <<>> THEN <<sp>> ELSE <<>>
  IN fps \o sps

_extract_match_names(case_name) ==
  LET parts == IF IsSubstr(<<" ", "v", ".", " ">>, case_name)
               THEN SplitOnce(case_name, <<" ", "v", ".", " ">>)
               ELSE IF IsSubstr(<<" ", "v", " ">>, case_name)
               THEN SplitOnce(case_name, <<" ", "v", " ">>)
               ELSE <<case_name>>
      first_party == Strip(parts[1])
      second_party == IF Len(parts) > 1 THEN Strip(parts[2]) ELSE <<>>
      is_generic == RStripDotComma(Lower(first_party)) \in GENERIC_PARTIES
      fp == _best_word(first_party)
      sp == _best_word(second_party)
      fps == IF fp # <<>> THEN <<fp>> ELSE <<>>
      sps == IF second_party # <<>> /\ sp # <<>> THEN <<sp>> ELSE <<>>
  IN IF is_generic /\ second_party # <<>> THEN sps \o fps ELSE fps \o sps

(***************************************************************************)
(* _match_authority                                                        *)
(***************************************************************************)
\* the end of the run of digits that starts at s[i]
DigitRunEnd(s, i) ==
  CHOOSE j \in i..Len(s) :
    /\ \A k \in i..j : IsDigit(s[k])
    /\ j = Len(s) \/ ~IsDigit(s[j + 1])

\* the end of the run of blanks that starts at s[i]
SpaceRunEnd(s, i) ==
  CHOOSE j \in i..Len(s) :
    /\ \A k \in i..j : IsSpace(s[k])
    /\ j = Len(s) \/ ~IsSpace(s[j + 1])

\* the end of the run of [A-Za-z. '] that starts at s[i], i - 1 when empty
ClassRunEnd(s, i) ==
  CHOOSE j \in (i - 1)..Len(s) :
    /\ \A k \in i..j : IsAlpha(s[k]) \/ s[k] \in {".", " ", "'"}
    /\ j = Len(s) \/ ~(IsAlpha(s[j + 1]) \/ s[j + 1] \in {".", " ", "'"})

\* where \b(\d+\s+[A-Za-z][A-Za-z. ']+\s+\d+)\b matches from s[i]: the
\* offset of its last character, 0 when it does not match there
RawCiteEnd(s, i) ==
  IF ~(IsDigit(s[i]) /\ (i = 1 \/ ~IsWord(s[i - 1]))) THEN 0
  ELSE LET d == DigitRunEnd(s, i) IN
    IF ~(d < Len(s) /\ IsSpace(s[d + 1])) THEN 0
    ELSE LET a == SpaceRunEnd(s, d + 1) + 1 IN
      IF ~(a <= Len(s) /\ IsAlpha(s[a])) THEN 0
      ELSE LET c == ClassRunEnd(s, a + 1) IN
        IF ~(c >= a + 2 /\ IsSpace(s[c]) /\ c < Len(s) /\ IsDigit(s[c + 1])) THEN 0
        ELSE LET e == DigitRunEnd(s, c + 1) IN
          IF e = Len(s) \/ ~IsWord(s[e + 1]) THEN e ELSE 0

\* re.findall of that pattern in s[i:]
RECURSIVE RawCitesFrom(_, _)
RawCitesFrom(s, i) ==
  IF i > Len(s) THEN <<>>
  ELSE LET e == RawCiteEnd(s, i) IN
    IF e = 0 THEN RawCitesFrom(s, i + 1)
    ELSE <<SubSeq(s, i, e)>> \o RawCitesFrom(s, e + 1)

\* raw_cites, without those the loop skips as shorter than 5 characters
RawCites(full_entry) ==
  SelectSeq(RawCitesFrom(full_entry, 1), LAMBDA raw_cite : Len(Strip(raw_cite)) >= 5)

\* the dictionary _match_authority returns; match_method without the names
\* and counts its f-strings add
MatchResult(status, file, match_method) ==
  [status |-> status, file |-> file, match_method |-> match_method]

Missing == MatchResult("missing", NoFile, Null)

\* no return statement reached yet
Undecided == MatchResult("undecided", NoFile, Null)

\* any(n in fname_lower for n in match_names)
NamedIn(f, match_names) ==
  \E k \in 1..Len(match_names) : IsSubstr(match_names[k], Lower(Docs[f].fname))

\* the first hit whose file name holds a match name, else the first hit
ByName(hits, match_names, method) ==
  LET named == SelectSeq(hits, LAMBDA f : NamedIn(f, match_names)) IN
    IF named # <<>> THEN MatchResult("found", named[1], method \o " (disambiguated)")
    ELSE MatchResult("found", hits[1], method)

CiteStr(case) == case.volume \o <<" ">> \o case.reporter \o <<" ">> \o case.page

HasCite(case) == case.volume # <<>> /\ case.reporter # <<>> /\ case.page # <<>>

\* "Strategy 1: exact volume/reporter/page in filename"
CiteInFilenameHits(case, files) ==
  IF HasCite(case)
  THEN SelectSeq(files, LAMBDA f : IsSubstr(CiteStr(case), Docs[f].fname))
  ELSE <<>>

CiteInFilename(case, files) ==
  LET cite_hits == CiteInFilenameHits(case, files) IN
    IF cite_hits = <<>> THEN Undecided
    ELSE IF Len(cite_hits) = 1 THEN MatchResult("found", cite_hits[1], "cite_in_filename")
    ELSE ByName(cite_hits, case.match_names, "cite_in_filename")

\* "Strategy 2: WL number in filename"
WlInFilenameHits(case, files) ==
  IF case.wl_number # <<>>
  THEN SelectSeq(files, LAMBDA f : IsSubstr(case.wl_number, Docs[f].fname))
  ELSE <<>>

WlInFilename(case, files) ==
  LET hits == WlInFilenameHits(case, files) IN
    IF hits = <<>> THEN Undecided ELSE MatchResult("found", hits[1], "wl_in_filename")

\* cite_variants
CiteVariants(case) ==
  IF IsSubstr(<<"U", ".", "S", ".">>, case.reporter)
  THEN {CiteStr(case), Replace(CiteStr(case), <<"U", ".", "S", ".">>, <<"U", ".", " ", "S", ".">>)}
  ELSE {CiteStr(case)}

\* "Strategy 3: volume/reporter/page in full file content"
CiteInContentHits(case, files) ==
  IF HasCite(case)
  THEN SelectSeq(files, LAMBDA f : \E variant \in CiteVariants(case) :
                                     IsSubstr(variant, Docs[f].text))
  ELSE <<>>

CiteInContent(case, files) ==
  LET content_hits == CiteInContentHits(case, files) IN
    IF content_hits = <<>> THEN Undecided
    ELSE IF Len(content_hits) = 1
         THEN MatchResult("found", content_hits[1], "cite_in_content")
    ELSE ByName(content_hits, case.match_names, "cite_in_content")

\* "Strategy 4: WL cite in full file content"
WlInContentHits(case, files) ==
  IF case.wl_year # <<>> /\ case.wl_number # <<>>
  THEN SelectSeq(files, LAMBDA f :
         IsSubstr(case.wl_year \o <<" ", "W", "L", " ">> \o case.wl_number, Docs[f].text))
  ELSE <<>>

WlInContent(case, files) ==
  LET hits == WlInContentHits(case, files) IN
    IF hits = <<>> THEN Undecided ELSE MatchResult("found", hits[1], "wl_in_content")

\* "Strategy 4b: docket number in file content"
DocketInContentHits(case, files) ==
  IF case.docket_number # <<>>
  THEN SelectSeq(files, LAMBDA f : IsSubstr(case.docket_number, Docs[f].text))
  ELSE <<>>

DocketInContent(case, files) ==
  LET hits == DocketInContentHits(case, files) IN
    IF hits = <<>> THEN Undecided ELSE MatchResult("found", hits[1], "docket_in_content")

\* "Strategy 4c: raw citation string in file content"
RawCiteHits(raw_cite, files) ==
  SelectSeq(files, LAMBDA f : IsSubstr(raw_cite, Header(Docs[f].text)))

RawCiteInContent(case, files) ==
  LET single == SelectSeq(RawCites(case.full_entry),
                          LAMBDA raw_cite : Len(RawCiteHits(raw_cite, files)) = 1)
  IN IF case.volume # <<>> \/ single = <<>> THEN Undecided
     ELSE MatchResult("found", RawCiteHits(single[1], files)[1], "raw_cite_in_content")

\* prefix = name[:max(4, len(name) - 2)] if len(name) > 4 else name
Prefix(name) ==
  IF Len(name) > 6 THEN SubSeq(name, 1, Len(name) - 2)
  ELSE IF Len(name) > 4 THEN SubSeq(name, 1, 4) ELSE name

\* content_name_hits
ContentNameHits(name, files) ==
  SelectSeq(files, LAMBDA f : IsSubstr(Prefix(name), Lower(Header(Docs[f].text))))

\* both, for one other name
BothInContent(oname, hits) ==
  SelectSeq(hits, LAMBDA f : IsSubstr(oname, Lower(Header(Docs[f].text))))

\* the body of the loop of strategy 5 for one name
NameInContentFor(name, case, files) ==
  LET hits == ContentNameHits(name, files)
      other == SelectSeq(case.match_names,
                         LAMBDA n : n # name /\ n \notin GENERIC_PARTIES)
      narrowing == SelectSeq(other, LAMBDA oname : Len(BothInContent(oname, hits)) = 1)
      page_hits == SelectSeq(hits, LAMBDA f : SearchWord(case.page, Header(Docs[f].text)))
  IN IF name \in GENERIC_PARTIES \/ hits = <<>> THEN Undecided
     ELSE IF Len(hits) = 1 THEN MatchResult("found", hits[1], "name_in_content")
     ELSE IF Len(case.match_names) > 1 /\ narrowing # <<>>
          THEN MatchResult("found", BothInContent(narrowing[1], hits)[1],
                           "both_names_in_content")
     ELSE IF case.page # <<>> /\ Len(page_hits) = 1
          THEN MatchResult("found", page_hits[1], "name_and_page_in_content")
     ELSE Undecided

\* "Strategy 5: name matching in file content"
NameInContent(case, files) ==
  LET deciding == SelectSeq(case.match_names,
                            LAMBDA name : NameInContentFor(name, case, files) # Undecided)
  IN IF deciding = <<>> THEN Undecided
     ELSE NameInContentFor(deciding[1], case, files)

\* the files whose lower-cased name holds a name
FilenameHits(name, files) ==
  SelectSeq(files, LAMBDA f : IsSubstr(name, Lower(Docs[f].fname)))

\* a single file name with the primary name returned as found
NameInFilenameSingleFound(case, files) ==
  LET hits == IF case.match_names = <<>> THEN <<>>
              ELSE FilenameHits(case.match_names[1], files)
  IN IF hits = <<>> THEN Missing
     ELSE IF Len(hits) = 1 THEN MatchResult("found", hits[1], "name")
     ELSE MatchResult("uncertain", hits[1], "name (candidates)")

\* "Strategy 6: name matching in filename", with every return after it
NameInFilename(case, files) ==
  LET match_names == case.match_names
      primary_name == match_names[1]
      has_secondary == Len(match_names) > 1
      secondary_name == match_names[2]
      primary_matches == FilenameHits(primary_name, files)
      secondary_matches == FilenameHits(secondary_name, files)
      both_matches == FilenameHits(secondary_name, primary_matches)
  IN IF match_names = <<>> THEN Missing
     ELSE IF primary_matches = <<>>
          THEN IF has_secondary /\ Len(secondary_matches) = 1
               THEN MatchResult("uncertain", secondary_matches[1], "secondary_name")
               ELSE Missing
     ELSE IF Len(primary_matches) = 1
          THEN MatchResult("uncertain", primary_matches[1], "name")
     ELSE IF has_secondary /\ Len(both_matches) = 1
          THEN MatchResult("found", both_matches[1], "both_parties")
     ELSE IF has_secondary /\ both_matches # <<>>
          THEN MatchResult("uncertain", both_matches[1], "both_parties (candidates)")
     ELSE MatchResult("uncertain", primary_matches[1], "name (candidates)")

\* the strategies with name matching in the content tried before citation
\* matching in the content
CascadeNamesFirst(case, files) ==
  << CiteInFilename(case, files), WlInFilename(case, files),
     NameInContent(case, files), CiteInContent(case, files),
     WlInContent(case, files), DocketInContent(case, files),
     RawCiteInContent(case, files) >>

\* the strategies before the last, in the order the function tries them
Cascade(case, files) ==
  << CiteInFilename(case, files), WlInFilename(case, files),
     CiteInContent(case, files), WlInContent(case, files),
     DocketInContent(case, files), RawCiteInContent(case, files),
     NameInContent(case, files) >>

_match_authority(case, files) ==
  LET returned == SelectSeq(Cascade(case, files), LAMBDA r : r # Undecided) IN
    IF returned # <<>> THEN returned[1] ELSE NameInFilename(case, files)

(***************************************************************************)
(* The entries of AUTHORITIES.md the matcher is asked about                *)
(***************************************************************************)

None == <<>>

\* what _parse_authorities_md reads off an entry "**case_name, cite**"
\* before it derives the match names: "R" stands for a reporter CITE_RE
\* knows, "Po" for one it does not know
Parsed(case_name, cite, volume, reporter, page, wl_year, wl_number, docket_number) ==
  [ case_name |-> case_name, cite |-> cite, volume |-> volume,
    reporter |-> reporter, page |-> page, wl_year |-> wl_year,
    wl_number |-> wl_number, docket_number |-> docket_number ]

\* an entry with a reporter citation only
Cited(case_name, volume, page) ==
  Parsed(case_name, volume \o <<" ", "R", " ">> \o page, volume, <<"R">>, page,
         None, None, None)

\* the entries of AUTHORITIES.md: reporter citations ("R" is a reporter
\* CITE_RE knows), among them companion cases that share a page with a
\* file, a Westlaw citation, a docket number, and a reporter outside
\* CITE_RE ("Po")
Entries ==
  LET StG == <<"S", "t", "a", "t", "e", " ", "v", ".", " ", "G", "o", "n">>
      AbJ == <<"A", "b", "c", " ", "v", ".", " ", "J", "o", "n">>
      XyA == <<"X", "y", "z", " ", "v", ".", " ", "A", "b", "c">>
      Kim == <<"K", "i", "m", " ", "v", ".", " ", "S", "t", "a", "t", "e">>
      KiX == <<"K", "i", "m", " ", "v", ".", " ", "X", "y", "z">>
      KiO == <<"K", "i", "m", " ", "v", ".", " ", "O", "p">>
      Lee == <<"L", "e", "e", " ", "v", ".", " ", "P", "o", "e">>
  IN { Cited(NameAbc, <<"1">>, <<"5">>), Cited(NameGon, <<"2">>, <<"7">>),
       Cited(NameGnz, <<"2">>, <<"7">>), Cited(NameXyz, <<"9">>, <<"9">>),
       Cited(StG, <<"2">>, <<"7">>), Cited(AbJ, <<"3">>, <<"3">>),
       Cited(AbJ, <<"9">>, <<"9">>), Cited(XyA, <<"9">>, <<"9">>),
       Cited(Kim, <<"1">>, <<"5">>), Cited(KiX, <<"9">>, <<"9">>),
       Cited(KiX, <<"9">>, <<"3">>), Cited(KiO, <<"9">>, <<"9">>),
       Parsed(Lee, <<"2", "0", " ", "W", "L", " ", "7", "7">>, None, None, None,
              <<"2", "0">>, <<"7", "7">>, None),
       Parsed(Lee, <<"N", "o", ".", " ", "P", "-", "1">>, None, None, None,
              None, None, <<"P", "-", "1">>),
       Parsed(Lee, <<"4", " ", "P", "o", " ", "8">>, None, None, None, None, None,
              None) }

\* current_case as _parse_authorities_md appends it to cases
Case(e) ==
  [ full_entry |-> e.case_name \o <<",", " ">> \o e.cite,
    case_name |-> e.case_name, volume |-> e.volume, reporter |-> e.reporter,
    page |-> e.page, wl_year |-> e.wl_year, wl_number |-> e.wl_number,
    docket_number |-> e.docket_number,
    match_names |-> _extract_match_names(e.case_name) ]

\* the citation-proposition pair the extraction returns for the same mention
PairOf(case) ==
  [ case_name |-> case.case_name, volume |-> case.volume,
    reporter |-> case.reporter, page |-> case.page, purpose |-> "supporting" ]

(***************************************************************************)
(* Bounds and the answers of the external service                          *)
(***************************************************************************)
\* briefs of the run, numbered in the order of txt_files
NumBriefs == 2

\* longest array an extraction call returns
MaxPairs == 2

\* longest array a verification call returns
MaxRecs == 2

Briefs == 1..NumBriefs

SeqsUpTo(S, n) == UNION {[1..k -> S] : k \in 0..n}

\* what _extract_pairs can return: any array of pair objects ([] on failure)
ExtractAnswers == SeqsUpTo({PairAbc, PairGon, PairXyz}, MaxPairs)

\* the verdict objects of the run: a clean one for every "index" value (0:
\* the key is missing) and a flagged one for the first proposition
VerdictRecords ==
  [index : 0..MaxPairs, severity : {"Verified"}, relevance : {Null},
   explanation : {ServiceText}]
    \cup [index : {1}, severity : {"Minor"}, relevance : {Null},
          explanation : {ServiceText}]

\* what _verify_authority can return when the array is not empty
VerifyAnswers == SeqsUpTo(VerdictRecords, MaxRecs) \ {<<>>}

(***************************************************************************)
(* _group_by_authority                                                     *)
(***************************************************************************)
\* grouped[key].append(prop), a new key going to the end of the dictionary
\* grouped[key] = [prop] in place of grouped[key].append(prop)
AppendToReplacing(grouped, key, prop) ==
  IF \E i \in 1..Len(grouped) : grouped[i].authority_file = key
  THEN [i \in 1..Len(grouped) |->
          IF grouped[i].authority_file = key
          THEN [grouped[i] EXCEPT !.props = <<prop>>]
          ELSE grouped[i]]
  ELSE Append(grouped, [authority_file |-> key, props |-> <<prop>>])

AppendTo(grouped, key, prop) ==
  IF \E i \in 1..Len(grouped) : grouped[i].authority_file = key
  THEN [i \in 1..Len(grouped) |->
          IF grouped[i].authority_file = key
          THEN [grouped[i] EXCEPT !.props = Append(@, prop)]
          ELSE grouped[i]]
  ELSE Append(grouped, [authority_file |-> key, props |-> <<prop>>])

\* the citations the pairs of the model carry
CiteKeys ==
  { <<p.case_name, p.volume, p.reporter, p.page>> :
      p \in {PairAbc, PairGon, PairXyz,
             [case_name |-> NameGnz, volume |-> <<"2">>, reporter |-> <<"R">>,
              page |-> <<"7">>, purpose |-> "extending"]}
             \cup {PairOf(e) : e \in {x \in Entries : HasCite(x)}} }

\* _find_authority_file over these citations, computed once
MatchTable ==
  [c \in CiteKeys |-> _find_authority_file(c[1], c[2], c[3], c[4])]

\* match = _find_authority_file(pair.get("case_name", ""), ...)
Match(pair) == MatchTable[<<pair.case_name, pair.volume, pair.reporter, pair.page>>]

\* prop = dict(pair) with brief_name and authority_file added
Prop(pair, brief_name) ==
  [ case_name |-> pair.case_name, volume |-> pair.volume,
    reporter |-> pair.reporter, page |-> pair.page, purpose |-> pair.purpose,
    src |-> pair.src, brief_name |-> brief_name,
    authority_file |-> Match(pair),
    verdict |-> <<>>, nset |-> 0 ]

RECURSIVE GroupPairs(_, _, _)
GroupPairs(grouped, brief_name, pairs) ==
  IF pairs = <<>> THEN grouped
  ELSE LET prop == Prop(Head(pairs), brief_name) IN
         GroupPairs(AppendTo(grouped, prop.authority_file, prop), brief_name, Tail(pairs))

RECURSIVE GroupFrom(_, _)
GroupFrom(grouped, items) ==
  IF items = <<>> THEN grouped
  ELSE GroupFrom(GroupPairs(grouped, Head(items).brief_name, Head(items).pairs),
                 Tail(items))

\* all_pairs is walked in its insertion order
_group_by_authority(items) == GroupFrom(<<>>, items)

\* grouped.pop(None, [])
\* the unmatched pairs removed from grouped and not kept
PopNoneDropped(grouped) == <<>>

PopNone(grouped) ==
  LET none == SelectSeq(grouped, LAMBDA g : g.authority_file = NoFile) IN
    IF none = <<>> THEN <<>> ELSE none[1].props

WithoutNone(grouped) == SelectSeq(grouped, LAMBDA g : g.authority_file # NoFile)

(***************************************************************************)
(* _verify_authority: the request                                          *)
(***************************************************************************)
\* enumerate(propositions, 1)
Propositions(props) ==
  [i \in 1..Len(props) |->
     [ number |-> i, brief_name |-> props[i].brief_name, src |-> props[i].src,
       citation |-> Citation(props[i]), purpose |-> props[i].purpose ]]

Request(auth_file, props) ==
  [ authority_text |-> auth_files[auth_file].text,
    propositions |-> Propositions(props) ]

NoRequest == [authority_text |-> <<>>, propositions |-> <<>>]

(***************************************************************************)
(* run: merge-back and the report                                          *)
(***************************************************************************)
\* the guard without "0 <=": props[-1] is the last proposition
RECURSIVE ApplyVerdictsWrapping(_, _)
ApplyVerdictsWrapping(props, auth_verdicts) ==
  IF auth_verdicts = <<>> THEN props
  ELSE LET verdict == Head(auth_verdicts)
           idx == verdict.index - 1
           at == IF idx < 0 THEN Len(props) + idx + 1 ELSE idx + 1
       IN ApplyVerdictsWrapping(
            IF idx < Len(props) /\ at >= 1
            THEN [props EXCEPT ![at].verdict = Append(<<>>, verdict), ![at].nset = @ + 1]
            ELSE props,
            Tail(auth_verdicts))

\* the index taken as 0-based
RECURSIVE ApplyVerdictsZeroBased(_, _)
ApplyVerdictsZeroBased(props, auth_verdicts) ==
  IF auth_verdicts = <<>> THEN props
  ELSE LET verdict == Head(auth_verdicts)
           idx == verdict.index
       IN ApplyVerdictsZeroBased(
            IF 0 <= idx /\ idx < Len(props)
            THEN [props EXCEPT ![idx + 1].verdict = Append(<<>>, verdict),
                               ![idx + 1].nset = @ + 1]
            ELSE props,
            Tail(auth_verdicts))

\* for verdict in auth_verdicts: props[idx]["verdict"] = verdict
RECURSIVE ApplyVerdicts(_, _)
ApplyVerdicts(props, auth_verdicts) ==
  IF auth_verdicts = <<>> THEN props
  ELSE LET verdict == Head(auth_verdicts)
           idx == verdict.index - 1
       IN ApplyVerdicts(
            IF 0 <= idx /\ idx < Len(props)
            THEN [props EXCEPT ![idx + 1].verdict = Append(<<>>, verdict),
                               ![idx + 1].nset = @ + 1]
            ELSE props,
            Tail(auth_verdicts))

ErrorVerdict(auth_file) ==
  [ index |-> 0, severity |-> "Error", relevance |-> Absent,
    explanation |-> [ text |-> "Verification failed for ... Claude returned no results",
                      arg |-> auth_files[auth_file].fname ] ]

NotFoundVerdict ==
  [ index |-> 0, severity |-> "Critical", relevance |-> Absent,
    explanation |-> [text |-> "No authority file found", arg |-> NoArg] ]

MarkAll(props, verdict) ==
  [k \in 1..Len(props) |->
     [props[k] EXCEPT !.verdict = Append(<<>>, verdict), !.nset = @ + 1]]

\* merge-back without the branch for an authority that has no results
MergeBackUnmarked(grouped, results) ==
  [i \in 1..Len(grouped) |->
     LET auth_verdicts == results[grouped[i].authority_file]
     IN [grouped[i] EXCEPT !.props =
           IF auth_verdicts # <<>> THEN ApplyVerdicts(@, auth_verdicts) ELSE @]]

\* "Match verdicts back to pairs by index"
MergeBack(grouped, results) ==
  [i \in 1..Len(grouped) |->
     LET auth_file == grouped[i].authority_file
         auth_verdicts == results[auth_file]
     IN [grouped[i] EXCEPT !.props =
           IF auth_verdicts # <<>> THEN ApplyVerdicts(@, auth_verdicts)
           ELSE MarkAll(@, ErrorVerdict(auth_file))]]

OfBrief(props, brief_name) == SelectSeq(props, LAMBDA p : p.brief_name = brief_name)

RECURSIVE GroupedOfBrief(_, _)
GroupedOfBrief(grouped, brief_name) ==
  IF grouped = <<>> THEN <<>>
  ELSE OfBrief(Head(grouped).props, brief_name)
         \o GroupedOfBrief(Tail(grouped), brief_name)

\* brief_pairs of one brief
BriefPairs(grouped, missing, brief_name) ==
  GroupedOfBrief(grouped, brief_name) \o OfBrief(missing, brief_name)

\* "Format report per brief": the sections after the title, in txt_files order
RECURSIVE Sections(_, _, _)
Sections(grouped, missing, b) ==
  IF b > NumBriefs THEN <<>>
  ELSE LET brief_pairs == BriefPairs(grouped, missing, b) IN
         (IF brief_pairs # <<>> THEN <<_format_report(b, brief_pairs)>> ELSE <<>>)
           \o Sections(grouped, missing, b + 1)

(***************************************************************************)
(* run: the state of one cite-check run                                    *)
(***************************************************************************)
VARIABLES
  pc,          \* where run() is: "extract", "verify", "retry", "done"
  extract,     \* per brief, its Phase A future: "running", "done", "hung"
  all_pairs,   \* the dictionary {brief_name: pairs}, in insertion order
  grouped,     \* the dictionary {authority_file: props}, in insertion order
  not_found,   \* the props popped from grouped[None]
  verify,      \* per authority, its Phase B future and the attempt it is in
  verdicts,    \* the dictionary {authority_file: results}
  requests,    \* per authority, the last request sent to the service
  report,      \* the sections written to CITECHECK.md
  tasks,       \* the list of (auth_file, auth_text, props, model) tuples
  trace,       \* per authority, the calls and sleeps of its tasks, kept by
               \* the step-by-step actions of _verify_one_authority
  entry,       \* step 5: the case _match_authority is called with
  files,       \* step 5: the keys of its auth_files, in dictionary order
  result,      \* step 5: the dictionary _match_authority returned
  env,         \* what run finds in the project directory when it starts
  state,       \* pipeline: the PipelineState, as saved in the state file
  pipe         \* pipeline: the arguments and the loop of run_pipeline

\* the state of step 5, which the cite-check run never touches
matchVars == <<entry, files, result>>

\* the project directory and the pipeline around the steps
pipeVars == <<env, state, pipe>>

vars == <<pc, extract, all_pairs, grouped, not_found, verify, verdicts,
          requests, report, tasks, trace, matchVars, pipeVars>>

\* no call and no sleep yet
NoTrace == [a \in AuthIds |-> [calls |-> <<>>, waits |-> <<>>, total |-> 0]]

\* step 5 has not been asked anything
NotAsked == entry = <<>> /\ files = <<>> /\ result = Undecided

\* the briefs and the authority files are there, no report has been written
\* and no pipeline runs
NoPipeline ==
  /\ env = [ citecheck_md |-> "absent", brief_filter |-> "none",
             briefs |-> NumBriefs, authorities |-> Len(auth_files) ]
  /\ state = <<>>
  /\ pipe = <<>>

\* _verify_one_authority(args, max_retries=3)
max_retries == 3

Idle == [st |-> "idle", attempt |-> 0]
Running == [st |-> "running", attempt |-> 0]

Init ==
  /\ pc = "extract"
  /\ extract = [b \in Briefs |-> "running"]
  /\ all_pairs = <<>>
  /\ grouped = <<>>
  /\ not_found = <<>>
  /\ verify = [a \in AuthIds |-> Idle]
  /\ verdicts = [a \in AuthIds |-> <<>>]
  /\ requests = [a \in AuthIds |-> NoRequest]
  /\ report = <<>>
  /\ tasks = <<>> /\ trace = NoTrace
  /\ NoPipeline
  /\ NotAsked

\* the pair objects of one answer, each a distinct object of the brief
Tagged(pairs) ==
  [k \in 1..Len(pairs) |->
     [ case_name |-> pairs[k].case_name, volume |-> pairs[k].volume,
       reporter |-> pairs[k].reporter, page |-> pairs[k].page,
       purpose |-> pairs[k].purpose, src |-> k ]]

\* as_completed yields the future of brief b, which returned an array
\* (the empty one when the call failed or its output could not be parsed)
ExtractReturns(b) ==
  /\ pc = "extract" /\ extract[b] = "running"
  /\ \E pairs \in ExtractAnswers :
       all_pairs' = Append(all_pairs, [brief_name |-> b, pairs |-> Tagged(pairs)])
  /\ extract' = [extract EXCEPT ![b] = "done"]
  /\ UNCHANGED <<pc, grouped, not_found, verify, verdicts, requests, report,
               tasks, trace, matchVars,
               pipeVars>>

\* a failed future cancels the futures still running, which are never
\* collected
ExtractRaisesCancelling(b) ==
  /\ pc = "extract" /\ extract[b] = "running"
  /\ all_pairs' = Append(all_pairs, [brief_name |-> b, pairs |-> <<>>])
  /\ extract' = [c \in Briefs |-> "done"]
  /\ UNCHANGED <<pc, grouped, not_found, verify, verdicts, requests, report,
               tasks, trace, matchVars,
               pipeVars>>

\* future.result() raises: all_pairs[brief_name] = []
ExtractRaises(b) ==
  /\ pc = "extract" /\ extract[b] = "running"
  /\ all_pairs' = Append(all_pairs, [brief_name |-> b, pairs |-> <<>>])
  /\ extract' = [extract EXCEPT ![b] = "done"]
  /\ UNCHANGED <<pc, grouped, not_found, verify, verdicts, requests, report,
               tasks, trace, matchVars,
               pipeVars>>

\* subprocess.run(cmd, input=prompt, ...) has no timeout argument: when the
\* service never answers, the worker stays in the call
ExtractHangs(b) ==
  /\ pc = "extract" /\ extract[b] = "running"
  /\ extract' = [extract EXCEPT ![b] = "hung"]
  /\ UNCHANGED <<pc, all_pairs, grouped, not_found, verify, verdicts, requests, report,
               tasks, trace, matchVars,
               pipeVars>>

InGrouped(g, a) == \E i \in 1..Len(g) : g[i].authority_file = a

PropsOf(g, a) ==
  LET hit == SelectSeq(g, LAMBDA x : x.authority_file = a) IN
    IF hit = <<>> THEN <<>> ELSE hit[1].props

\* one task per proposition of each key
TasksPerProp(g) ==
  IF g = <<>> THEN <<>>
  ELSE LET RECURSIVE Each(_)
           Each(gs) ==
             IF gs = <<>> THEN <<>>
             ELSE [k \in 1..Len(Head(gs).props) |->
                     [ auth_file |-> Head(gs).authority_file,
                       auth_text |-> auth_files[Head(gs).authority_file].text,
                       props |-> <<Head(gs).props[k]>> ]] \o Each(Tail(gs))
       IN Each(g)

\* one task per key of grouped:
\* tasks.append((auth_file, auth_text, props, config.verification_model))
Tasks(g) ==
  [i \in 1..Len(g) |->
     [ auth_file |-> g[i].authority_file,
       auth_text |-> auth_files[g[i].authority_file].text,
       props |-> g[i].props ]]

\* executor.submit(_verify_one_authority, task) for task in tasks
Submitted(ts, a) == \E i \in 1..Len(ts) : ts[i].auth_file = a

\* grouping as soon as the first extraction future has completed
GroupAtFirstResult ==
  /\ pc = "extract" /\ \E b \in Briefs : extract[b] = "done"
  /\ LET g == _group_by_authority(all_pairs) IN
       /\ grouped' = WithoutNone(g)
       /\ not_found' = PopNone(g)
       /\ tasks' = Tasks(WithoutNone(g))
       /\ verify' = [a \in AuthIds |-> IF Submitted(Tasks(WithoutNone(g)), a)
                                       THEN Running ELSE Idle]
  /\ pc' = "verify"
  /\ UNCHANGED <<extract, all_pairs, verdicts, requests, report, trace,
               matchVars, pipeVars>>

\* after the Phase A pool has drained: group, pop the unmatched pairs and
\* submit one _verify_one_authority task per key of grouped
GroupAndSubmit ==
  /\ pc = "extract" /\ \A b \in Briefs : extract[b] = "done"
  /\ LET g == _group_by_authority(all_pairs) IN
       /\ grouped' = WithoutNone(g)
       /\ not_found' = PopNone(g)
       /\ tasks' = Tasks(WithoutNone(g))
       /\ verify' = [a \in AuthIds |-> IF Submitted(Tasks(WithoutNone(g)), a)
                                       THEN Running ELSE Idle]
  /\ pc' = "verify"
  /\ UNCHANGED <<extract, all_pairs, verdicts, requests, report, trace,
               matchVars, pipeVars>>

\* authority_file, authority_text, propositions, model = args
Sent(a) ==
  LET task == SelectSeq(tasks, LAMBDA t : t.auth_file = a)[1] IN
    [requests EXCEPT ![a] = Request(a, task.props)]

Done == [st |-> "done", attempt |-> 0]

\* one call of _verify_authority that returns a non-empty array: the task
\* returns it and the collecting loop stores it in verdicts
VerifyReturns(a) ==
  /\ pc \in {"verify", "retry"} /\ verify[a].st = "running"
  /\ \E results \in VerifyAnswers : verdicts' = [verdicts EXCEPT ![a] = results]
  /\ verify' = [verify EXCEPT ![a] = Done]
  /\ requests' = Sent(a)
  /\ UNCHANGED <<pc, extract, all_pairs, grouped, not_found, report,
               tasks, trace, matchVars,
               pipeVars>>

\* one call that returns [] (non-zero exit, empty output, unparseable output
\* or an empty array): retry, and after max_retries calls return []
VerifyEmpty(a) ==
  /\ pc \in {"verify", "retry"} /\ verify[a].st = "running"
  /\ IF verify[a].attempt < max_retries - 1
     THEN /\ verify' = [verify EXCEPT ![a].attempt = @ + 1]
          /\ UNCHANGED verdicts
     ELSE /\ verify' = [verify EXCEPT ![a] = Done]
          /\ verdicts' = [verdicts EXCEPT ![a] = <<>>]
  /\ requests' = Sent(a)
  /\ UNCHANGED <<pc, extract, all_pairs, grouped, not_found, report,
               tasks, trace, matchVars,
               pipeVars>>

\* future.result() raises: the main pass stores [], the retry pass stores
\* nothing
VerifyRaises(a) ==
  /\ pc \in {"verify", "retry"} /\ verify[a].st = "running"
  /\ verify' = [verify EXCEPT ![a] = Done]
  /\ verdicts' = IF pc = "verify" THEN [verdicts EXCEPT ![a] = <<>>] ELSE verdicts
  /\ UNCHANGED <<pc, extract, all_pairs, grouped, not_found, requests, report,
               tasks, trace, matchVars,
               pipeVars>>

\* the service never answers a verification call
VerifyHangs(a) ==
  /\ pc \in {"verify", "retry"} /\ verify[a].st = "running"
  /\ verify' = [verify EXCEPT ![a].st = "hung"]
  /\ requests' = Sent(a)
  /\ UNCHANGED <<pc, extract, all_pairs, grouped, not_found, verdicts, report,
               tasks, trace, matchVars,
               pipeVars>>

PoolDrained == \A a \in AuthIds : verify[a].st \in {"idle", "done"}

\* failed = [t for t in tasks if not verdicts.get(t[0])]
Failed == {a \in AuthIds : InGrouped(grouped, a) /\ verdicts[a] = <<>>}

\* every task again, whatever its result
AllTasks(ts, results) == ts

\* failed = [t for t in tasks if not verdicts.get(t[0])]
FailedTasks(ts, results) == SelectSeq(ts, LAMBDA t : results[t.auth_file] = <<>>)

\* "Retry any authorities that returned no results"
StartRetry ==
  /\ pc = "verify" /\ PoolDrained /\ Failed # {}
  /\ verify' = [a \in AuthIds |-> IF Submitted(FailedTasks(tasks, verdicts), a)
                                  THEN Running ELSE verify[a]]
  /\ trace' = [a \in AuthIds |-> IF Submitted(FailedTasks(tasks, verdicts), a)
                                 THEN [trace[a] EXCEPT !.calls = <<>>, !.waits = <<>>]
                                 ELSE trace[a]]
  /\ pc' = "retry"
  /\ UNCHANGED <<extract, all_pairs, grouped, not_found, verdicts, requests, report,
               tasks, matchVars,
               pipeVars>>

\* merge-back, the verdicts of the unmatched pairs and the report
Finish ==
  /\ PoolDrained
  /\ \/ pc = "verify" /\ Failed = {}
     \/ pc = "retry"
  /\ LET merged == MergeBack(grouped, verdicts)
         marked == MarkAll(not_found, NotFoundVerdict)
     IN /\ grouped' = merged
        /\ not_found' = marked
        /\ report' = Sections(merged, marked, 1)
  /\ pc' = "done"
  /\ UNCHANGED <<extract, all_pairs, verify, verdicts, requests,
               tasks, trace, matchVars,
               pipeVars>>

Next ==
  \/ \E b \in Briefs : ExtractReturns(b)
  \/ \E b \in Briefs : ExtractRaises(b)
  \/ \E b \in Briefs : ExtractHangs(b)
  \/ GroupAndSubmit
  \/ \E a \in AuthIds : VerifyReturns(a)
  \/ \E a \in AuthIds : VerifyEmpty(a)
  \/ \E a \in AuthIds : VerifyRaises(a)
  \/ \E a \in AuthIds : VerifyHangs(a)
  \/ StartRetry
  \/ Finish

Spec == Init /\ [][Next]_vars

(***************************************************************************)
(* The run when the service answers every call and its verdict for a       *)
(* mention depends only on the authority and the mention                   *)
(***************************************************************************)
ServiceAnswer(auth_file, props) ==
  [i \in 1..Len(props) |->
     [ index |-> i,
       severity |-> IF props[i].purpose = "supporting" THEN "Verified" ELSE "Minor",
       relevance |-> Null,
       explanation |-> ServiceText ]]

\* the first call of _verify_authority returns one verdict per proposition
VerifyAnswersAll(a) ==
  /\ pc = "verify" /\ verify[a].st = "running"
  /\ verdicts' = [verdicts EXCEPT ![a] = ServiceAnswer(a, PropsOf(grouped, a))]
  /\ verify' = [verify EXCEPT ![a] = Done]
  /\ requests' = Sent(a)
  /\ UNCHANGED <<pc, extract, all_pairs, grouped, not_found, report,
               tasks, trace, matchVars,
               pipeVars>>

NextAnswered ==
  \/ \E b \in Briefs : ExtractReturns(b)
  \/ GroupAndSubmit
  \/ \E a \in AuthIds : VerifyAnswersAll(a)
  \/ Finish

SpecAnswered == Init /\ [][NextAnswered]_vars

(***************************************************************************)
(* _format_report on its own: the run stands before "Format report per     *)
(* brief" with any verdicts merged into the pairs of the first brief       *)
(***************************************************************************)
\* most pairs of the brief under one authority
MaxFormatPairs == 2

\* no verdict, or one whose severity is of the vocabulary, the "Error" of
\* the step, null, no key at all, or a word outside the vocabulary
FormatVerdicts ==
  {<<>>} \cup
  { <<v>> : v \in [ index : {0},
                     severity : { "Verified", "Minor", "Moderate", "Significant",
                                  "Critical", "Advocacy", "Critique-Valid",
                                  "Critique-Questionable", "Error", Null, Absent,
                                  "Unclear" },
                     relevance : {"on_point", "analogous", "off_point", Null},
                     explanation : {ServiceText} ] }

FormatProp(purpose, verdict, auth_file, k) ==
  [ case_name |-> NameAbc, volume |-> <<"1">>, reporter |-> <<"R">>,
    page |-> <<"5">>, purpose |-> purpose, src |-> k, brief_name |-> 1,
    authority_file |-> auth_file, verdict |-> verdict, nset |-> Len(verdict) ]

FormatInit ==
  /\ pc = "format"
  /\ extract = [b \in Briefs |-> "done"]
  /\ all_pairs = <<>>
  /\ \E n \in 0..MaxFormatPairs :
       \E ps \in [1..n -> {"supporting", "extending", "critiquing", "background"}] :
       \E vs \in [1..n -> FormatVerdicts] :
         grouped = IF n = 0 THEN <<>>
                   ELSE << [ authority_file |-> 1,
                             props |-> [k \in 1..n |-> FormatProp(ps[k], vs[k], 1, k)] ] >>
  /\ not_found \in
       { <<>>, <<FormatProp("supporting", Append(<<>>, NotFoundVerdict), NoFile, MaxFormatPairs + 1)>> }
  /\ verify = [a \in AuthIds |-> Idle]
  /\ verdicts = [a \in AuthIds |-> <<>>]
  /\ requests = [a \in AuthIds |-> NoRequest]
  /\ report = <<>>
  /\ tasks = <<>> /\ trace = NoTrace
  /\ NoPipeline
  /\ NotAsked

FormatBriefs ==
  /\ pc = "format"
  /\ report' = Sections(grouped, not_found, 1)
  /\ pc' = "done"
  /\ UNCHANGED <<extract, all_pairs, grouped, not_found, verify, verdicts, requests,
               tasks, trace, matchVars,
               pipeVars>>

SpecFormat == FormatInit /\ [][FormatBriefs]_vars

(***************************************************************************)
(* Step 5 on its own: one entry of AUTHORITIES.md is matched against the   *)
(* authority files, listed in sorted order by the first scan and in        *)
(* directory order by the scan after the wait for missing files; the       *)
(* cite-check run then groups the same mention                             *)
(***************************************************************************)
\* most files in the authorities directory
MaxFiles == 2

\* the orders in which auth_files may list the files of the directory
FileLists ==
  { f \in UNION {[1..n -> 1..Len(Docs)] : n \in 1..MaxFiles} :
      \A i, j \in 1..Len(f) : i # j => f[i] # f[j] }

MatchInit ==
  /\ pc = "match"
  /\ extract = [b \in Briefs |-> "done"]
  /\ all_pairs = <<>>
  /\ grouped = <<>>
  /\ not_found = <<>>
  /\ verify = [a \in AuthIds |-> Idle]
  /\ verdicts = [a \in AuthIds |-> <<>>]
  /\ requests = [a \in AuthIds |-> NoRequest]
  /\ report = <<>>
  /\ tasks = <<>> /\ trace = NoTrace
  /\ NoPipeline
  /\ entry \in {Case(e) : e \in Entries}
  /\ files \in FileLists
  /\ result = Undecided

\* result = _match_authority(case, auth_files)
MatchEntry ==
  /\ pc = "match"
  /\ result' = _match_authority(entry, files)
  /\ pc' = "matched"
  /\ UNCHANGED <<extract, all_pairs, grouped, not_found, verify, verdicts, requests,
               report, tasks, trace, entry, files, pipeVars>>

\* grouped = _group_by_authority(all_pairs, auth_files) and the pop of the
\* unmatched pairs, for a brief that cites the entry and the files of the run
GroupEntry ==
  /\ pc = "matched" /\ files = AuthOrder /\ HasCite(entry)
  /\ LET pairs == <<[brief_name |-> 1, pairs |-> Tagged(<<PairOf(entry)>>)]>>
         g == _group_by_authority(pairs)
     IN /\ all_pairs' = pairs
        /\ grouped' = WithoutNone(g)
        /\ not_found' = PopNone(g)
  /\ pc' = "grouped"
  /\ UNCHANGED <<extract, verify, verdicts, requests, report, tasks, trace,
               matchVars, pipeVars>>

SpecMatch == MatchInit /\ [][MatchEntry \/ GroupEntry]_vars

(***************************************************************************)
(* Phase B step by step: every call of _verify_authority and every sleep   *)
(* of _verify_one_authority is a step, and trace keeps them                *)
(***************************************************************************)
\* what the briefs of these runs cite: both briefs the first authority, one
\* of them the second as well, or an authority no file matches
DispatchInit ==
  /\ pc = "extract"
  /\ extract = [b \in Briefs |-> "done"]
  /\ all_pairs \in
       { << [brief_name |-> 1, pairs |-> Tagged(<<PairAbc, PairGon>>)],
            [brief_name |-> 2, pairs |-> Tagged(<<PairAbc>>)] >>,
         << [brief_name |-> 2, pairs |-> Tagged(<<PairGon>>)],
            [brief_name |-> 1, pairs |-> Tagged(<<PairXyz, PairAbc>>)] >> }
  /\ grouped = <<>>
  /\ not_found = <<>>
  /\ verify = [a \in AuthIds |-> Idle]
  /\ verdicts = [a \in AuthIds |-> <<>>]
  /\ requests = [a \in AuthIds |-> NoRequest]
  /\ report = <<>>
  /\ tasks = <<>> /\ trace = NoTrace
  /\ NoPipeline
  /\ NotAsked

\* the same wait before every retry
WaitAlways30(attempt) == 30

\* wait = 30 * (attempt + 1)
Wait(attempt) == 30 * (attempt + 1)

\* the call of _verify_authority of this attempt, with what it returned
Called(a, results) ==
  [trace EXCEPT ![a].calls = Append(@, [ request |-> Sent(a)[a],
                                         empty |-> results = <<>> ]),
                ![a].total = @ + 1]

\* results = _verify_authority(...) is not empty: return it, and the
\* collecting loop of the pass stores it
CallReturns(a) ==
  /\ pc \in {"verify", "retry"} /\ verify[a].st = "running"
  /\ \E results \in VerifyAnswers :
       /\ verdicts' = [verdicts EXCEPT ![a] = results]
       /\ trace' = Called(a, results)
  /\ verify' = [verify EXCEPT ![a] = Done]
  /\ requests' = Sent(a)
  /\ UNCHANGED <<pc, extract, all_pairs, grouped, not_found, report, tasks, matchVars,
               pipeVars>>

\* results is empty: sleep when an attempt is left, else return [], which
\* the collecting loop of the pass stores
CallEmpty(a) ==
  /\ pc \in {"verify", "retry"} /\ verify[a].st = "running"
  /\ trace' = Called(a, <<>>)
  /\ IF verify[a].attempt < max_retries - 1
     THEN /\ verify' = [verify EXCEPT ![a].st = "sleeping"]
          /\ UNCHANGED verdicts
     ELSE /\ verify' = [verify EXCEPT ![a] = Done]
          /\ verdicts' = [verdicts EXCEPT ![a] = <<>>]
  /\ requests' = Sent(a)
  /\ UNCHANGED <<pc, extract, all_pairs, grouped, not_found, report, tasks, matchVars,
               pipeVars>>

\* time.sleep(wait), then the next attempt of the loop
Sleeps(a) ==
  /\ pc \in {"verify", "retry"} /\ verify[a].st = "sleeping"
  /\ trace' = [trace EXCEPT ![a].waits = Append(@, Wait(verify[a].attempt))]
  /\ verify' = [verify EXCEPT ![a] = [st |-> "running", attempt |-> @.attempt + 1]]
  /\ UNCHANGED <<pc, extract, all_pairs, grouped, not_found, verdicts, requests,
               report, tasks, matchVars,
               pipeVars>>

SpecDispatch ==
  DispatchInit
    /\ [][\/ GroupAndSubmit
          \/ \E a \in AuthIds : CallReturns(a)
          \/ \E a \in AuthIds : CallEmpty(a)
          \/ \E a \in AuthIds : Sleeps(a)
          \/ \E a \in AuthIds : VerifyRaises(a)
          \/ StartRetry
          \/ Finish]_vars

(***************************************************************************)
(* _parse_authorities_md derives the match names of an entry from its case *)
(* name: the case names are a first party, then " v. " or " v " and a      *)
(* second party, or the first party alone                                  *)
(***************************************************************************)
NamesInit ==
  /\ pc = "parse"
  /\ extract = [b \in Briefs |-> "done"]
  /\ all_pairs = <<>>
  /\ grouped = <<>>
  /\ not_found = <<>>
  /\ verify = [a \in AuthIds |-> Idle]
  /\ verdicts = [a \in AuthIds |-> <<>>]
  /\ requests = [a \in AuthIds |-> NoRequest]
  /\ report = <<>>
  /\ tasks = <<>> /\ trace = NoTrace
  /\ NoPipeline
  /\ entry \in
       { [case_name |-> n, match_names |-> None] : n \in
        LET FirstParties ==
              { <<"U", "n", "i", "t", "e", "d", " ", "S", "t", "a", "t", "e", "s">>,
                <<"S", "t", "a", "t", "e">>,
                <<"T", "e", "x", "a", "s", ",">>,
                <<"P", "e", "o", "p", "l", "e">>,
                <<"W", "o", "o", "d">>,
                <<"S", "a", "f", "f", "o", "r", "d", " ", "U", "n", "i", "f", "i", "e", "d", " ", "S", "c", "h", "o", "o", "l", " ", "D", "i", "s", "t", "r", "i", "c", "t", " ", "N", "o", ".", " ", "1">>,
                <<"A", "b", "c", " ", "I", "n", "c", ".">>,
                <<"A">>,
                <<"N", "o", ".", " ", "1">> }
            SecondParties ==
              { <<"S", "p", "r", "i", "g", "g", "s">>,
                <<"R", "e", "d", "d", "i", "n", "g">>,
                <<"C", "l", "e", "m", "o", "n", "s", " ", "C", "o", ".">>,
                <<"S", "t", "a", "t", "e">>,
                <<"B">>,
                <<"1", " ", "2">>,
                <<"E", "t", " ", "A", "l", ".">>,
                <<"J", "o", "n", "e", "s", ",", " ", "3">> }
            Separators == {<<" ", "v", ".", " ">>, <<" ", "v", " ">>}
        IN FirstParties
             \cup {f \o s \o p : f \in FirstParties, s \in Separators, p \in SecondParties} }
  /\ files = <<>>
  /\ result = Undecided

\* current_case["match_names"] = _extract_match_names(current_case["case_name"])
ParseEntry ==
  /\ pc = "parse"
  /\ entry' = [entry EXCEPT !.match_names = _extract_match_names(entry.case_name)]
  /\ pc' = "parsed"
  /\ UNCHANGED <<extract, all_pairs, grouped, not_found, verify, verdicts, requests,
               report, tasks, trace, files, result, pipeVars>>

SpecNames == NamesInit /\ [][ParseEntry]_vars

(***************************************************************************)
(* run from its first line: the skip of an existing report and the checks  *)
(* of the briefs and the authority files, then the run itself with a       *)
(* service that answers every verification call                            *)
(***************************************************************************)
\* CITECHECK.md is absent, empty or written by an earlier run; brief_filter
\* is not given, or matches the briefs, or matches none; the brief texts and
\* the authority texts are there or not
PrereqInit ==
  /\ pc = "start"
  /\ extract = [b \in Briefs |-> "idle"]
  /\ all_pairs = <<>>
  /\ grouped = <<>>
  /\ not_found = <<>>
  /\ verify = [a \in AuthIds |-> Idle]
  /\ verdicts = [a \in AuthIds |-> <<>>]
  /\ requests = [a \in AuthIds |-> NoRequest]
  /\ report = <<>>
  /\ tasks = <<>> /\ trace = NoTrace
  /\ NotAsked
  /\ env \in [ citecheck_md : {"absent", "empty", "written"},
               brief_filter : {"none", "match", "nomatch"},
               briefs : {0, NumBriefs}, authorities : {0, Len(auth_files)} ]
  /\ state = <<>>
  /\ pipe = <<>>

\* the lines of run before Phase A, with every check passing
StartUnchecked ==
  /\ pc = "start"
  /\ IF env.citecheck_md = "written" /\ env.brief_filter = "none"
     THEN pc' = "skipped" /\ UNCHANGED extract
     ELSE pc' = "extract" /\ extract' = [b \in Briefs |-> "running"]
  /\ UNCHANGED <<all_pairs, grouped, not_found, verify, verdicts, requests, report,
               tasks, trace, matchVars, pipeVars>>

\* the lines of run before Phase A: return when the report exists, raise
\* FileNotFoundError when the briefs, the briefs the filter selects or the
\* authority texts are missing, else submit the extraction tasks
Start ==
  /\ pc = "start"
  /\ IF env.citecheck_md = "written" /\ env.brief_filter = "none"
     THEN pc' = "skipped" /\ UNCHANGED extract
     ELSE IF env.briefs = 0 \/ env.brief_filter = "nomatch" \/ env.authorities = 0
     THEN pc' = "FileNotFoundError" /\ UNCHANGED extract
     ELSE pc' = "extract" /\ extract' = [b \in Briefs |-> "running"]
  /\ UNCHANGED <<all_pairs, grouped, not_found, verify, verdicts, requests, report,
               tasks, trace, matchVars, pipeVars>>

SpecPrereq ==
  PrereqInit /\ [][Start \/ NextAnswered]_vars

(***************************************************************************)
(* The pipeline (pipeline.py, state.py): run_pipeline is invoked from the  *)
(* shell up to MaxRuns times on the same state file                       *)
(***************************************************************************)
\* invocations of run_pipeline on one project
MaxRuns == 2

STEP_NAMES ==
  << "fetch", "convert", "authorities", "courtlistener", "westlaw", "process",
     "verify", "citecheck", "analysis", "mootqa", "pdf" >>

\* the keys of STEP_RUNNERS
STEP_RUNNERS ==
  { "fetch", "convert", "authorities", "courtlistener", "westlaw", "rtf2text",
    "verify", "citecheck", "analysis", "mootqa", "pdf" }

\* self.steps[step].status = status; self.steps[step].error = error
mark(steps, step, status, error) ==
  [steps EXCEPT ![step] = [status |-> status, error |-> error]]

\* the first name of STEP_NAMES that is neither completed nor skipped
first_incomplete(steps) ==
  LET open == {i \in DOMAIN STEP_NAMES :
                 steps[STEP_NAMES[i]].status \notin {"completed", "skipped"}}
  IN IF open = {} THEN Null
     ELSE STEP_NAMES[CHOOSE i \in open : \A j \in open : i <= j]

\* no state file yet: PipelineState() has every step pending; nothing runs
PipeInit ==
  /\ pc = "shell"
  /\ extract = [b \in Briefs |-> "idle"]
  /\ all_pairs = <<>>
  /\ grouped = <<>>
  /\ not_found = <<>>
  /\ verify = [a \in AuthIds |-> Idle]
  /\ verdicts = [a \in AuthIds |-> <<>>]
  /\ requests = [a \in AuthIds |-> NoRequest]
  /\ report = <<>>
  /\ tasks = <<>> /\ trace = NoTrace
  /\ NotAsked
  /\ env = [ citecheck_md |-> "absent", brief_filter |-> "none",
             briefs |-> NumBriefs, authorities |-> Len(auth_files) ]
  /\ state = [n \in {STEP_NAMES[i] : i \in DOMAIN STEP_NAMES} |->
                [status |-> "pending", error |-> Null]]
  /\ pipe = [ single_step |-> Null, resume |-> FALSE, case_number |-> FALSE,
              steps_to_run |-> <<>>, planned |-> <<>>, attempted |-> <<>>,
              runs |-> 0 ]

\* run_pipeline up to its loop: load the state, choose steps_to_run, and
\* mark fetch skipped when it is to run and no case number is given
Begin ==
  /\ pc \in {"shell", "returned", "raised", "exit", "KeyError"}
  /\ pipe.runs < MaxRuns
  /\ \E single_step \in {STEP_NAMES[i] : i \in DOMAIN STEP_NAMES} \cup {Null},
        resume, case_number \in BOOLEAN :
       LET first == first_incomplete(state)
           nothing == single_step = Null /\ resume /\ first = Null
           steps == IF single_step # Null THEN <<single_step>>
                    ELSE IF ~resume THEN STEP_NAMES
                    ELSE IF first = Null THEN <<>>
                    ELSE SubSeq(STEP_NAMES,
                                CHOOSE i \in DOMAIN STEP_NAMES : STEP_NAMES[i] = first,
                                Len(STEP_NAMES))
           skip == steps # <<>> /\ (\E i \in DOMAIN steps : steps[i] = "fetch")
                     /\ ~case_number
       IN /\ single_step # Null => ~resume
          /\ state' = IF skip THEN mark(state, "fetch", "skipped", Null) ELSE state
          /\ pipe' = [ single_step |-> single_step, resume |-> resume,
                       case_number |-> case_number,
                       steps_to_run |-> IF skip
                                        THEN SelectSeq(steps, LAMBDA n : n # "fetch")
                                        ELSE steps,
                       planned |-> steps, attempted |-> <<>>,
                       runs |-> pipe.runs + 1 ]
          /\ pc' = IF nothing THEN "returned" ELSE "loop"
  /\ UNCHANGED <<extract, all_pairs, grouped, not_found, verify, verdicts, requests,
               report, tasks, trace, matchVars, env>>

\* runner = STEP_RUNNERS[step_name], then the step is marked running and
\* saved, and the runner is called
StartStep ==
  /\ pc = "loop" /\ pipe.steps_to_run # <<>>
  /\ Head(pipe.steps_to_run) \in STEP_RUNNERS
  /\ state' = mark(state, Head(pipe.steps_to_run), "running", Null)
  /\ pipe' = [pipe EXCEPT !.attempted = Append(@, Head(pipe.steps_to_run))]
  /\ pc' = "runner"
  /\ UNCHANGED <<extract, all_pairs, grouped, not_found, verify, verdicts, requests,
               report, tasks, trace, matchVars, env>>

\* runner = STEP_RUNNERS[step_name] raises KeyError, outside the try: the
\* exception leaves run_pipeline and the state is not touched
NoRunner ==
  /\ pc = "loop" /\ pipe.steps_to_run # <<>>
  /\ Head(pipe.steps_to_run) \notin STEP_RUNNERS
  /\ pc' = "KeyError"
  /\ UNCHANGED <<extract, all_pairs, grouped, not_found, verify, verdicts, requests,
               report, tasks, trace, matchVars, env, state, pipe>>

\* the loop has no step left: "Pipeline complete."
LoopEnds ==
  /\ pc = "loop" /\ pipe.steps_to_run = <<>>
  /\ pc' = "returned"
  /\ UNCHANGED <<extract, all_pairs, grouped, not_found, verify, verdicts, requests,
               report, tasks, trace, matchVars, env, state, pipe>>

\* runner(config) returns: the step is marked completed and saved
RunnerReturns ==
  /\ pc = "runner"
  /\ state' = mark(state, Head(pipe.steps_to_run), "completed", Null)
  /\ pipe' = [pipe EXCEPT !.steps_to_run = Tail(@)]
  /\ pc' = "loop"
  /\ UNCHANGED <<extract, all_pairs, grouped, not_found, verify, verdicts, requests,
               report, tasks, trace, matchVars, env>>

\* an exception that leaves the step where mark and save put it
RunnerRaisesUnmarked ==
  /\ pc = "runner"
  /\ pc' = "raised"
  /\ UNCHANGED <<extract, all_pairs, grouped, not_found, verify, verdicts, requests,
               report, tasks, trace, matchVars, env, state, pipe>>

\* runner(config) raises an Exception e: the step is marked failed with
\* str(e) and saved, and e is raised again
RunnerRaises ==
  /\ pc = "runner"
  /\ \E e \in {"No authority .txt files found", "exit status 1"} :
       state' = mark(state, Head(pipe.steps_to_run), "failed", e)
  /\ pc' = "raised"
  /\ UNCHANGED <<extract, all_pairs, grouped, not_found, verify, verdicts, requests,
               report, tasks, trace, matchVars, env, pipe>>

\* KeyboardInterrupt in the runner: marked failed, saved, sys.exit(1)
RunnerInterrupted ==
  /\ pc = "runner"
  /\ state' = mark(state, Head(pipe.steps_to_run), "failed", "Interrupted by user")
  /\ pc' = "exit"
  /\ UNCHANGED <<extract, all_pairs, grouped, not_found, verify, verdicts, requests,
               report, tasks, trace, matchVars, env, pipe>>

SpecPipeline ==
  PipeInit /\ [][Begin \/ StartStep \/ NoRunner \/ LoopEnds \/ RunnerReturns
                   \/ RunnerRaises \/ RunnerInterrupted]_vars

(***************************************************************************)
(* Properties                                                              *)
(***************************************************************************)
\* the array the extraction of brief b returned
Extracted(b) ==
  LET hit == SelectSeq(all_pairs, LAMBDA x : x.brief_name = b) IN
    IF hit = <<>> THEN <<>> ELSE hit[1].pairs

SectionsOf(b) == SelectSeq(report, LAMBDA r : r.brief_name = b)

HasEntry(entries, k) == \E i \in DOMAIN entries : entries[i].src = k

\* the entry of the report made from prop
EntryOf(prop) ==
  LET entries == SectionsOf(prop.brief_name)[1].entries IN
    entries[CHOOSE i \in DOMAIN entries : entries[i].src = prop.src]

Resolve(pair) == Match(pair)

Groups == DOMAIN grouped

\* the src values of a section's entries that lie in a bucket
Members(bucket) == {bucket[i].src : i \in DOMAIN bucket}

Buckets(r) ==
  << r.accuracy_issues, r.relevance_gaps, r.advocacy_targets, r.critiques,
     r.verified_items >>

\* C1: when the run is done, the entries formatted for a brief are exactly
\* the pairs its extraction returned, each once and each in one section of
\* the brief's report; a brief without pairs has no section.
MentionsPreserved ==
  pc = "done" =>
    \A b \in Briefs :
      LET ex == Extracted(b)
          secs == SectionsOf(b)
      IN /\ Len(secs) = IF ex = <<>> THEN 0 ELSE 1
         /\ ex # <<>> =>
              /\ Len(secs[1].entries) = Len(ex)
              /\ secs[1].total = Len(ex)
              /\ \A k \in DOMAIN ex :
                   \E i \in DOMAIN secs[1].entries :
                     LET e == secs[1].entries[i] IN
                       /\ e.src = k
                       /\ e.citation = Citation(ex[k])
                       /\ e.purpose = ex[k].purpose
                       /\ Cardinality({m \in 1..5 : k \in Members(Buckets(secs[1])[m])}) = 1

\* a finished run with an unmatched pair, an authority without results and
\* an authority with results for two or more propositions
MentionsPreservedWitness ==
  /\ pc = "done" /\ not_found # <<>>
  /\ \E i \in Groups : verdicts[grouped[i].authority_file] = <<>>
  /\ \E i \in Groups : /\ verdicts[grouped[i].authority_file] # <<>>
                       /\ Len(grouped[i].props) >= 2

\* C2: an authority whose slot is empty after both passes has every one of
\* its mentions in the accuracy section of the mention's brief, with
\* severity Error and an explanation that names the authority file.
FailedAuthorityMarked ==
  pc = "done" =>
    \A i \in Groups :
      LET a == grouped[i].authority_file
          props == grouped[i].props
      IN verdicts[a] = <<>> =>
           \A k \in DOMAIN props :
             LET secs == SectionsOf(props[k].brief_name) IN
               /\ Len(secs) = 1
               /\ \E j \in DOMAIN secs[1].accuracy_issues :
                    LET e == secs[1].accuracy_issues[j] IN
                      /\ e.src = props[k].src
                      /\ e.citation = Citation(props[k])
                      /\ e.severity = "Error"
                      /\ e.explanation.text # ""
                      /\ e.explanation.arg = auth_files[a].fname

\* a finished run in which an authority cited by both briefs has no results
FailedAuthorityMarkedWitness ==
  /\ pc = "done"
  /\ \E i \in Groups :
       /\ verdicts[grouped[i].authority_file] = <<>>
       /\ \A b \in Briefs :
            \E k \in DOMAIN grouped[i].props : grouped[i].props[k].brief_name = b

\* C3: a run never stays in a call the service does not answer: as long as
\* the run is not done, some step of it can still be taken.
RunNeverStuck == pc = "done" \/ ENABLED Next

\* the report and the requests of a run in which the extraction tasks
\* complete in the order of txt_files
InOrder == [b \in Briefs |-> [brief_name |-> b, pairs |-> Extracted(b)]]

InOrderGrouped == _group_by_authority(InOrder)

InOrderVerdicts ==
  [a \in AuthIds |-> ServiceAnswer(a, PropsOf(InOrderGrouped, a))]

InOrderReport ==
  Sections(MergeBack(WithoutNone(InOrderGrouped), InOrderVerdicts),
           MarkAll(PopNone(InOrderGrouped), NotFoundVerdict), 1)

InOrderRequests ==
  [a \in AuthIds |->
     IF InGrouped(InOrderGrouped, a)
     THEN Request(a, PropsOf(InOrderGrouped, a)) ELSE NoRequest]

\* C4: for the same answers, the requests and the report of a finished run
\* are those of the run whose tasks complete in the order of txt_files.
CompletionOrderIrrelevant ==
  pc = "done" => /\ requests = InOrderRequests
                 /\ report = InOrderReport

\* C5: the five sections of a brief's report partition its pairs: every
\* entry lies in exactly one of them and their sizes sum to the total.
BucketsPartition ==
  pc = "done" =>
    \A n \in DOMAIN report :
      LET r == report[n]
          bs == Buckets(r)
      IN /\ Len(bs[1]) + Len(bs[2]) + Len(bs[3]) + Len(bs[4]) + Len(bs[5]) = r.total
         /\ r.total = Len(BriefPairs(grouped, not_found, r.brief_name))
         /\ \A i \in DOMAIN r.entries :
              Cardinality({m \in 1..5 : r.entries[i].src \in Members(bs[m])}) = 1

\* a formatted brief with two pairs in different sections, one of them
\* without a severity of the vocabulary
BucketsPartitionWitness ==
  /\ pc = "done" /\ report # <<>>
  /\ report[1].total >= 2
  /\ \E i \in DOMAIN report[1].verified_items :
       report[1].verified_items[i].severity = Null
  /\ report[1].relevance_gaps # <<>>

\* C6: an entry lies in the relevance-gaps section exactly when its purpose
\* is supporting, its severity Verified and its relevance analogous or
\* off_point.
RelevanceGapsOnlySupporting ==
  pc = "done" =>
    \A n \in DOMAIN report :
      \A i \in DOMAIN report[n].entries :
        LET e == report[n].entries[i] IN
          (e.src \in Members(report[n].relevance_gaps))
            <=> /\ e.purpose = "supporting"
                /\ e.severity = "Verified"
                /\ e.relevance \in {"analogous", "off_point"}

\* C7: under an authority whose results are not empty, a mention whose
\* 1-based index is carried by no verdict is reported with severity Error
\* and "No verification result returned", and a mention is assigned only by
\* the verdicts that carry its index (the others change no mention).
UncoveredMentionIsError ==
  pc = "done" =>
    \A i \in Groups :
      LET auth_verdicts == verdicts[grouped[i].authority_file]
          props == grouped[i].props
      IN auth_verdicts # <<>> =>
           \A k \in DOMAIN props :
             LET hits == {j \in DOMAIN auth_verdicts : auth_verdicts[j].index = k} IN
               /\ props[k].nset = Cardinality(hits)
               /\ hits = {} =>
                    /\ props[k].verdict = <<>>
                    /\ EntryOf(props[k]).severity = "Error"
                    /\ EntryOf(props[k]).explanation = NoResultText
                    /\ HasEntry(SectionsOf(props[k].brief_name)[1].accuracy_issues,
                                props[k].src)

\* results that cover one of two mentions and hold a verdict whose index is
\* missing or beyond the last proposition
UncoveredMentionIsErrorWitness ==
  /\ pc = "done"
  /\ \E i \in Groups :
       LET auth_verdicts == verdicts[grouped[i].authority_file]
           n == Len(grouped[i].props)
       IN /\ n >= 2
          /\ \E j \in DOMAIN auth_verdicts : auth_verdicts[j].index \in 1..n
          /\ \E j \in DOMAIN auth_verdicts : auth_verdicts[j].index \notin 1..n
          /\ \E k \in 1..n : grouped[i].props[k].verdict = <<>>

\* the mentions of all_pairs that resolve to authority a
AssignedTo(a) ==
  { <<b, k>> \in Briefs \X (1..MaxPairs) :
      k \in DOMAIN Extracted(b) /\ Resolve(Extracted(b)[k]) = a }

\* C8: the request of an authority carries its text and one proposition per
\* mention assigned to it, numbered 1..n in the grouped order, and a mention
\* whose number occurs as an index in the results holds a verdict of these
\* results that carries this number.
RequestAndMergeByIndex ==
  pc = "done" =>
    \A i \in Groups :
      LET a == grouped[i].authority_file
          props == grouped[i].props
          req == requests[a]
          auth_verdicts == verdicts[a]
      IN /\ req # NoRequest =>
              /\ req.authority_text = auth_files[a].text
              /\ Len(req.propositions) = Len(props)
              /\ Len(props) = Cardinality(AssignedTo(a))
              /\ \A k \in DOMAIN props :
                   /\ req.propositions[k].number = k
                   /\ <<req.propositions[k].brief_name, req.propositions[k].src>>
                        = <<props[k].brief_name, props[k].src>>
                   /\ <<props[k].brief_name, props[k].src>> \in AssignedTo(a)
         /\ auth_verdicts # <<>> =>
              /\ req # NoRequest
              /\ \A k \in DOMAIN props :
                   (\E j \in DOMAIN auth_verdicts : auth_verdicts[j].index = k) =>
                     /\ props[k].verdict # <<>>
                     /\ props[k].verdict[1].index = k
                     /\ \E j \in DOMAIN auth_verdicts :
                          auth_verdicts[j] = props[k].verdict[1]
                     /\ EntryOf(props[k]).severity = props[k].verdict[1].severity

\* an authority with two mentions whose results carry the indexes 1 and 2
RequestAndMergeByIndexWitness ==
  /\ pc = "done"
  /\ \E i \in Groups :
       LET auth_verdicts == verdicts[grouped[i].authority_file] IN
         /\ Len(grouped[i].props) = 2
         /\ Len(auth_verdicts) = 2
         /\ auth_verdicts[1].index = 2 /\ auth_verdicts[2].index = 1
         /\ auth_verdicts[2].severity = "Minor"

\* C9: no mention is assigned a verdict more than once in a run.
VerdictAssignedOnce ==
  /\ \A i \in Groups : \A k \in DOMAIN grouped[i].props : grouped[i].props[k].nset <= 1
  /\ \A k \in DOMAIN not_found : not_found[k].nset <= 1

\* C10: a mention that resolves to no authority file is in no request, and
\* when the run is done it lies in the accuracy section of its brief with
\* severity Critical and the explanation that no authority file was found.
UnresolvedBypassVerification ==
  /\ \A a \in AuthIds :
       \A n \in DOMAIN requests[a].propositions :
         LET q == requests[a].propositions[n] IN
           Resolve(Extracted(q.brief_name)[q.src]) # NoFile
  /\ pc = "done" =>
       \A b \in Briefs :
         \A k \in DOMAIN Extracted(b) :
           Resolve(Extracted(b)[k]) = NoFile =>
             /\ Len(SectionsOf(b)) = 1
             /\ \E j \in DOMAIN SectionsOf(b)[1].accuracy_issues :
                  LET e == SectionsOf(b)[1].accuracy_issues[j] IN
                    /\ e.src = k
                    /\ e.severity = "Critical"
                    /\ e.explanation = NoFileFoundFor(Citation(Extracted(b)[k]))

\* a finished run with an unmatched pair beside an authority that was
\* verified with results
UnresolvedBypassVerificationWitness ==
  /\ pc = "done" /\ not_found # <<>>
  /\ \E a \in AuthIds : requests[a] # NoRequest /\ verdicts[a] # <<>>

\* the citation of the entry occurs in the content of some listed file
CiteInSomeContent ==
  HasCite(entry) /\ \E i \in 1..Len(files) : IsSubstr(CiteStr(entry), Docs[files[i]].text)

\* C11: the mention is grouped under authority D exactly when
\* _match_authority resolves it to D, it is among the unmatched pairs
\* exactly when _match_authority returns status missing, and a mention whose
\* citation occurs in the content of some authority is never unmatched.
GrouperFollowsMatcher ==
  pc = "grouped" =>
    /\ \A d \in AuthIds :
         (\E i \in Groups : grouped[i].authority_file = d)
           <=> (result.status # "missing" /\ result.file = d)
    /\ not_found # <<>> <=> result.status = "missing"
    /\ CiteInSomeContent => not_found = <<>>

\* the documents of a list, as a set
Listed(hits) == {hits[i] : i \in 1..Len(hits)}

\* the candidate documents of each strategy, in priority order: citation in
\* the identifier, Westlaw number in the identifier, citation in the
\* content, Westlaw citation in the content, docket number in the content,
\* a citation of general shape from the entry in the header, a name token
\* in the header, a name token in the identifier
Candidates(case, fs) ==
  << Listed(CiteInFilenameHits(case, fs)),
     Listed(WlInFilenameHits(case, fs)),
     Listed(CiteInContentHits(case, fs)),
     Listed(WlInContentHits(case, fs)),
     Listed(DocketInContentHits(case, fs)),
     IF case.volume # <<>> THEN {}
     ELSE UNION {Listed(RawCiteHits(RawCites(case.full_entry)[k], fs)) :
                   k \in 1..Len(RawCites(case.full_entry))},
     UNION {Listed(ContentNameHits(case.match_names[k], fs)) :
              k \in {j \in 1..Len(case.match_names) :
                       case.match_names[j] \notin GENERIC_PARTIES}},
     UNION {Listed(FilenameHits(case.match_names[k], fs)) :
              k \in 1..Min(2, Len(case.match_names))} >>

\* the strategy a match_method names, 0 for none
StrategyOf(match_method) ==
  CASE match_method \in {"cite_in_filename", "cite_in_filename (disambiguated)"} -> 1
    [] match_method = "wl_in_filename" -> 2
    [] match_method \in {"cite_in_content", "cite_in_content (disambiguated)"} -> 3
    [] match_method = "wl_in_content" -> 4
    [] match_method = "docket_in_content" -> 5
    [] match_method = "raw_cite_in_content" -> 6
    [] match_method \in {"name_in_content", "both_names_in_content",
                         "name_and_page_in_content"} -> 7
    [] match_method \in {"secondary_name", "name", "both_parties",
                         "both_parties (candidates)", "name (candidates)"} -> 8
    [] OTHER -> 0

\* the strategies that have a candidate for the entry among the files
Yielding == {k \in 1..8 : Candidates(entry, files)[k] # {}}

\* the strategy of highest priority that has a candidate
FirstYielding == CHOOSE k \in Yielding : \A j \in Yielding : k <= j

\* C12: the strategies have one priority order and the first that yields
\* at least one candidate decides: the returned document is one of its
\* candidates and the result comes from no strategy after it, also when it
\* yields several candidates.
FirstCandidateDecides ==
  (pc # "match" /\ Yielding # {}) =>
    /\ StrategyOf(result.match_method) = FirstYielding
    /\ result.file \in Candidates(entry, files)[FirstYielding]

\* the content of the returned document holds the citation of the entry
ReturnedHoldsCite ==
  result.file # NoFile /\ IsSubstr(CiteStr(entry), Docs[result.file].text)

InSomeFilename(s) == \E i \in 1..Len(files) : IsSubstr(s, Docs[files[i]].fname)

SecondPartyToken ==
  LET parts == SplitOnce(entry.case_name, <<" ", "v", ".", " ">>) IN
    IF Len(parts) > 1 THEN _best_word(Strip(parts[2])) ELSE <<>>

\* the listed files whose content holds the citation of the entry
ContentCandidates == Listed(CiteInContentHits(entry, files))

\* those of them whose header holds the token of the second party
HeaderNamesSecond ==
  {d \in ContentCandidates :
     SecondPartyToken # <<>>
       /\ IsSubstr(SecondPartyToken, Lower(Header(Docs[d].text)))}

\* C14: when the citation of the mention is in the content of two or more
\* files and the token of its second party is in the header of exactly one
\* of them, that one is returned with status found by the disambiguated
\* content-citation path, for every order of the files (stated for the
\* mentions no file name holds the citation of, which reach that path).
SecondPartyDisambiguates ==
  ( /\ pc # "match" /\ HasCite(entry) /\ ~InSomeFilename(CiteStr(entry))
    /\ Cardinality(ContentCandidates) >= 2
    /\ Cardinality(HeaderNamesSecond) = 1 ) =>
    /\ result.status = "found"
    /\ result.file \in HeaderNamesSecond
    /\ result.match_method = "cite_in_content (disambiguated)"

\* C15: the status is missing exactly when no strategy has a candidate for
\* the mention; with a candidate of any strategy, also a name token in
\* several headers or several file names, it is found or uncertain.
MissingIffNoCandidate ==
  pc # "match" =>
    /\ result.status = "missing" <=> Yielding = {}
    /\ Yielding # {} => result.status \in {"found", "uncertain"}

\* the listed files whose name holds the k-th match name of the entry
NamedBy(k) ==
  IF k > Len(entry.match_names) THEN {}
  ELSE {d \in Listed(files) : IsSubstr(entry.match_names[k], Lower(Docs[d].fname))}

\* C16 as stated: a mention resolved only by the strategy of lowest
\* priority, a name token in a file name, has status uncertain and never
\* found, whether one or both party tokens are in the file name.
NameOnlyIsUncertain ==
  (pc # "match" /\ StrategyOf(result.match_method) = 8) => result.status = "uncertain"

\* C16, amended: such a mention has status uncertain, except that it has
\* status found when several file names hold the primary token and exactly
\* one of them also holds the secondary token, which is the file returned.
NameOnlyIsUncertainUnlessNarrowed ==
  (pc # "match" /\ StrategyOf(result.match_method) = 8) =>
    IF Cardinality(NamedBy(1)) > 1 /\ Cardinality(NamedBy(1) \cap NamedBy(2)) = 1
    THEN result.status = "found" /\ result.file \in NamedBy(1) \cap NamedBy(2)
    ELSE result.status = "uncertain"

\* a mention resolved by the file names alone, two of which hold the primary
\* token and one of these the secondary token too
NameOnlyWitness ==
  /\ pc # "match" /\ StrategyOf(result.match_method) = 8
  /\ Cardinality(NamedBy(1)) > 1 /\ result.status = "found"

\* the orders in which the same files can be listed
Orders(fs) == {g \in FileLists : Len(g) = Len(fs) /\ Listed(g) = Listed(fs)}

\* how many match names of the entry the name, the header of a file holds
NameOverlap(d) ==
  Cardinality({k \in 1..Len(entry.match_names) :
                 IsSubstr(entry.match_names[k], Lower(Docs[d].fname))})

HeaderOverlap(d) ==
  Cardinality({k \in 1..Len(entry.match_names) :
                 IsSubstr(entry.match_names[k], Lower(Header(Docs[d].text)))})

\* two files tie: they are candidates of one strategy and hold as many of
\* the names, in their names or in their headers
Tied(d1, d2) ==
  /\ d1 # d2
  /\ \E k \in 1..8 : {d1, d2} \subseteq Candidates(entry, files)[k]
  /\ NameOverlap(d1) = NameOverlap(d2) \/ HeaderOverlap(d1) = HeaderOverlap(d2)

\* C17: for the same files and the same mention the status and the file
\* returned are the same for every order in which the files are listed,
\* except when two candidate files tie on citation and on name overlap.
OrderIndependent ==
  (pc # "match" /\ ~\E d1, d2 \in Listed(files) : Tied(d1, d2)) =>
    \A g \in Orders(files) :
      LET other == _match_authority(entry, g) IN
        other.status = result.status /\ other.file = result.file

\* the mentions of all briefs that resolve to authority a, by brief and
\* position in the brief's array
MentionsOf(a) ==
  {<<b, k>> \in Briefs \X (1..MaxPairs) :
     k \in DOMAIN Extracted(b) /\ Resolve(Extracted(b)[k]) = a}

\* the tasks of the main pass for authority a
TasksFor(a) == {i \in DOMAIN tasks : tasks[i].auth_file = a}

\* the mentions a list of propositions names
Named(props) == {<<props[k].brief_name, props[k].src>> : k \in DOMAIN props}

\* C18: the main pass submits exactly one task for each authority with at
\* least one grouped mention and none for any other; the task and the
\* request made from it carry the full text of the authority once and every
\* mention grouped under it, from all briefs, each once.
OneTaskPerAuthority ==
  pc \in {"verify", "retry", "done"} =>
    \A a \in AuthIds :
      /\ Cardinality(TasksFor(a)) = IF MentionsOf(a) # {} THEN 1 ELSE 0
      /\ \A i \in TasksFor(a) :
           /\ tasks[i].auth_text = auth_files[a].text
           /\ Named(tasks[i].props) = MentionsOf(a)
           /\ Len(tasks[i].props) = Cardinality(MentionsOf(a))
      /\ requests[a] # NoRequest =>
           /\ MentionsOf(a) # {}
           /\ requests[a].authority_text = auth_files[a].text
           /\ Named(requests[a].propositions) = MentionsOf(a)
           /\ Len(requests[a].propositions) = Cardinality(MentionsOf(a))

\* an authority cited by both briefs, with its one request sent
OneTaskPerAuthorityWitness ==
  /\ pc \in {"verify", "retry"}
  /\ \E a \in AuthIds :
       /\ requests[a] # NoRequest
       /\ \E k1, k2 \in 1..MaxPairs : {<<1, k1>>, <<2, k2>>} \subseteq MentionsOf(a)
       /\ Cardinality(TasksFor(a)) = 1

\* C19: within one dispatch of an authority the service is called at most
\* 3 times; every call before the last returned nothing, so calling stops
\* at the first result that is not empty; every call sends the text of the
\* authority with all its mentions; the waits are 30 s then 60 s, one after
\* each empty answer that another attempt follows, none after a result and
\* none after the third call.
RetryWithBackoff ==
  \A a \in AuthIds :
    LET calls == trace[a].calls
        waits == trace[a].waits
    IN /\ Len(calls) <= 3
       /\ \A k \in 1..(Len(calls) - 1) : calls[k].empty
       /\ \A k \in 1..Len(calls) :
            /\ calls[k].request.authority_text = auth_files[a].text
            /\ Named(calls[k].request.propositions) = MentionsOf(a)
            /\ Len(calls[k].request.propositions) = Cardinality(MentionsOf(a))
       /\ Len(waits) <= 2
       /\ \A k \in 1..Len(waits) : waits[k] = IF k = 1 THEN 30 ELSE 60
       /\ \A k \in 2..Len(waits) : waits[k] > waits[k - 1]
       /\ Len(waits) \in {Len(calls) - 1, Len(calls)} \cap (0..2)
       /\ verify[a].st = "running" => Len(waits) = Len(calls)
       /\ verify[a].st = "sleeping" => Len(waits) = Len(calls) - 1
       /\ (calls # <<>> /\ ~calls[Len(calls)].empty) => Len(waits) = Len(calls) - 1

\* a dispatch that ended after three empty answers and two waits
RetryWithBackoffWitness ==
  \E a \in AuthIds :
    /\ verify[a].st = "done"
    /\ Len(trace[a].calls) = 3 /\ trace[a].calls[3].empty
    /\ trace[a].waits = <<30, 60>>

\* a dispatch that ended with the result of its second call
RetryStopsWitness ==
  \E a \in AuthIds :
    /\ verify[a].st = "done" /\ verdicts[a] # <<>>
    /\ Len(trace[a].calls) = 2 /\ ~trace[a].calls[2].empty
    /\ trace[a].waits = <<30>>

\* the second pass submits every authority whose slot is empty and no other
RetryDispatch ==
  (pc = "verify" /\ pc' = "retry") =>
    \A a \in AuthIds :
      /\ verify'[a].st = "running" <=> (MentionsOf(a) # {} /\ verdicts[a] = <<>>)
      /\ verdicts[a] # <<>> => verify'[a].st = "done"
      /\ verdicts'[a] = verdicts[a]

\* in the second pass an authority that is not dispatched, or is done, is
\* not called and its slot keeps its value
RetryLeavesDone ==
  (pc = "retry" /\ pc' = "retry") =>
    \A a \in AuthIds :
      verify[a].st = "done" =>
        /\ verify'[a].st = "done"
        /\ trace'[a] = trace[a]
        /\ requests'[a] = requests[a]
        /\ verdicts'[a] = verdicts[a]

\* C20: the second pass dispatches exactly the authorities whose slot holds
\* no result that is not empty after the main pass; an authority with such
\* a result from the main pass is not called again and its result is not
\* overwritten; no authority is called more than 6 times in a run.
SecondPassOnlyFailed ==
  /\ [][RetryDispatch]_vars
  /\ [][RetryLeavesDone]_vars
  /\ [](\A a \in AuthIds : trace[a].total <= 6)

\* the second pass with one authority kept from the main pass and the other
\* called for the sixth time
SecondPassOnlyFailedWitness ==
  /\ pc = "retry"
  /\ \E a, b \in AuthIds :
       /\ verdicts[a] # <<>> /\ trace[a].total = 1 /\ verify[a].st = "done"
       /\ trace[b].total = 6


\* C21: no verification call is made, and no verification task exists,
\* before every brief's extraction task has finished (with a result or a
\* failure) and all mentions have been grouped; grouping itself happens only
\* once the last extraction task has finished.
VerifyAfterExtraction ==
  LET extracted == /\ \A b \in Briefs : extract[b] = "done"
                   /\ {all_pairs[i].brief_name : i \in DOMAIN all_pairs} = Briefs
      g == _group_by_authority(all_pairs)
  IN /\ (grouped # <<>> \/ not_found # <<>> \/ tasks # <<>> \/ pc # "extract")
          => extracted
     /\ \A a \in AuthIds :
          (verify[a].st # "idle" \/ requests[a] # NoRequest)
            => /\ extracted
               /\ pc \in {"verify", "retry", "done"}
               /\ tasks = Tasks(WithoutNone(g))
               /\ Submitted(tasks, a)
               /\ pc # "done" => grouped = WithoutNone(g) /\ not_found = PopNone(g)

\* a verification call has been answered in a run where one extraction
\* task failed and another returned mentions
VerifyAfterExtractionWitness ==
  /\ pc = "verify"
  /\ \E a \in AuthIds : verify[a].st = "done" /\ verdicts[a] # <<>>
                         /\ requests[a] # NoRequest
  /\ \E i \in DOMAIN all_pairs : all_pairs[i].pairs = <<>>


\* a call that never returns (the subject of C3)
SomeTaskHung ==
  \/ \E b \in Briefs : extract[b] = "hung"
  \/ \E a \in AuthIds : verify[a].st = "hung"

\* a step in which a task ends without a usable result touches that task's
\* slot only
FailureTouchesOwnSlot ==
  /\ \A b \in Briefs :
       (extract[b] = "running" /\ extract'[b] = "done"
          /\ all_pairs'[Len(all_pairs')].pairs = <<>>)
         => /\ \A c \in Briefs \ {b} : extract'[c] = extract[c]
            /\ all_pairs' = Append(all_pairs, [brief_name |-> b, pairs |-> <<>>])
            /\ UNCHANGED <<pc, verify, verdicts>>
  /\ \A a \in AuthIds :
       (verify[a].st = "running" /\ verify'[a].st = "done" /\ verdicts'[a] = <<>>)
         => /\ \A c \in AuthIds \ {a} :
                 verify'[c] = verify[c] /\ verdicts'[c] = verdicts[c]
            /\ UNCHANGED <<pc, extract, all_pairs, grouped, not_found, tasks>>

\* every finished task has been collected, and in the report a brief
\* without mentions has nothing and an authority without results has only
\* the step's own "Verification failed" verdict on its mentions, while the
\* others keep theirs
FailuresCollected ==
  /\ \A b \in Briefs :
       extract[b] = "done" =>
         Cardinality({i \in DOMAIN all_pairs : all_pairs[i].brief_name = b}) = 1
  /\ pc = "done" =>
       /\ \A b \in Briefs :
            IF Extracted(b) = <<>>
            THEN /\ SectionsOf(b) = <<>>
                 /\ \A i \in DOMAIN grouped : \A k \in DOMAIN grouped[i].props :
                      grouped[i].props[k].brief_name # b
                 /\ \A k \in DOMAIN not_found : not_found[k].brief_name # b
            ELSE Len(SectionsOf(b)) = 1 /\ SectionsOf(b)[1].total = Len(Extracted(b))
       /\ \A i \in DOMAIN grouped :
            LET a == grouped[i].authority_file IN
              /\ verify[a].st = "done"
              /\ verdicts[a] = <<>> =>
                   \A k \in DOMAIN grouped[i].props :
                     grouped[i].props[k].verdict = Append(<<>>, ErrorVerdict(a))
              /\ verdicts[a] # <<>> =>
                   \A k \in DOMAIN grouped[i].props :
                     (\E j \in DOMAIN verdicts[a] : verdicts[a][j].index = k)
                       => grouped[i].props[k].verdict # <<>>

\* before the report is written and while no call hangs, a task is running
\* or the main thread is at a statement it can execute
RunGoesOn ==
  (pc # "done" /\ ~SomeTaskHung) =>
    \/ pc = "extract" /\ \E b \in Briefs : extract[b] = "running"
    \/ pc = "extract" /\ \A b \in Briefs : extract[b] = "done"
    \/ pc \in {"verify", "retry"} /\ \E a \in AuthIds : verify[a].st = "running"
    \/ pc \in {"verify", "retry"} /\ PoolDrained

\* C22: the failure of one task is isolated in both phases: a brief whose
\* extraction task raised or returned nothing contributes no mention, an
\* authority whose verification task raised or returned nothing has an
\* empty slot, the step in which a task fails changes no sibling, every
\* finished task is collected, and the run goes on to the report: unless a
\* call never returns, a task is still running or the main thread's next
\* statement can be executed.
FailureIsolated ==
  /\ [](FailuresCollected)
  /\ [][FailureTouchesOwnSlot]_vars
  /\ [](RunGoesOn)

\* a finished run with a report in which one extraction task failed and one
\* authority ended with an empty slot while another has its verdicts
FailureIsolatedWitness ==
  /\ pc = "done" /\ report # <<>>
  /\ \E i \in DOMAIN all_pairs : all_pairs[i].pairs = <<>>
  /\ \E a, c \in AuthIds :
       /\ InGrouped(grouped, a) /\ verdicts[a] = <<>>
       /\ InGrouped(grouped, c) /\ verdicts[c] # <<>>


\* C23: the report of a finished run has, for every brief of the run, a
\* section whose summary gives the brief's number of mentions and the size
\* of each of its buckets, also for a brief with no flagged entry (all
\* its mentions verified, or no mention extracted).
EveryBriefHasSummary ==
  pc = "done" =>
    \A b \in Briefs :
      \E n \in DOMAIN report :
        LET r == report[n] IN
          /\ r.brief_name = b
          /\ r.total = Len(Extracted(b))
          /\ Len(r.accuracy_issues) + Len(r.relevance_gaps) + Len(r.advocacy_targets)
               + Len(r.critiques) + Len(r.verified_items) = r.total


\* C27: every entry _format_report places in the verified bucket has the
\* severity Verified; an entry whose severity is null or outside the
\* vocabulary is not in that bucket.
VerifiedBucketIsVerified ==
  pc = "done" =>
    \A n \in DOMAIN report :
      \A i \in DOMAIN report[n].verified_items :
        report[n].verified_items[i].severity = "Verified"


\* the parties of a case name as its separator divides them
PartyOf(case_name, k) ==
  LET sep == IF IsSubstr(<<" ", "v", ".", " ">>, case_name) THEN <<" ", "v", ".", " ">>
             ELSE IF IsSubstr(<<" ", "v", " ">>, case_name) THEN <<" ", "v", " ">>
             ELSE <<>>
      at == IF sep = <<>> THEN 0 ELSE Find(sep, case_name)
  IN IF at = 0 THEN (IF k = 1 THEN Strip(case_name) ELSE <<>>)
     ELSE IF k = 1 THEN Strip(SubSeq(case_name, 1, at - 1))
     ELSE Strip(Drop(case_name, at + Len(sep) - 1))

IsGenericParty(party) == RStripDotComma(Lower(party)) \in GENERIC_PARTIES

\* the last word of a party that is no number, no single character and no
\* noise word, in lower case without trailing punctuation; failing that the
\* first word that is no number and no single character; else nothing
MostDistinctive(party) ==
  LET words == SplitWs(party)
      clean(i) == Lower(RStripPunct(words[i]))
      named == {i \in DOMAIN words : Len(clean(i)) > 1 /\ ~IsDigits(clean(i))}
      good == {i \in named : clean(i) \notin PARTY_NOISE_WORDS}
  IN IF good # {} THEN clean(CHOOSE i \in good : \A j \in good : j <= i)
     ELSE IF named # {} THEN clean(CHOOSE i \in named : \A j \in named : i <= j)
     ELSE <<>>

GenericPartyDropped ==
  pc = "parsed" =>
    LET names == entry.match_names
        first == PartyOf(entry.case_name, 1)
        second == PartyOf(entry.case_name, 2)
        first_words == {Lower(RStripPunct(SplitWs(first)[i])) : i \in DOMAIN SplitWs(first)}
    IN (IsGenericParty(first) /\ MostDistinctive(second) # <<>>)
         => /\ names = <<MostDistinctive(second)>>
            /\ \A i \in DOMAIN names :
                 names[i] \in first_words => names[i] = MostDistinctive(second)


\* no call has been made and nothing has been written
NothingDone ==
  /\ \A b \in Briefs : extract[b] = "idle"
  /\ all_pairs = <<>> /\ grouped = <<>> /\ tasks = <<>>
  /\ \A a \in AuthIds : verify[a] = Idle /\ requests[a] = NoRequest
  /\ report = <<>>

PrerequisiteMissing ==
  env.briefs = 0 \/ env.brief_filter = "nomatch" \/ env.authorities = 0

\* after the return or the raise nothing changes
EndedRunStops == pc \in {"skipped", "FileNotFoundError"} => UNCHANGED vars

\* C24: if no brief text or no authority text is available, the run aborts
\* with an error before any extraction or verification call and without
\* writing the report.
MissingPrerequisiteAborts ==
  (pc # "start" /\ (env.briefs = 0 \/ env.authorities = 0))
    => pc = "FileNotFoundError" /\ NothingDone

\* C24 as the code has it: a run that is not skipped for an existing report
\* aborts with FileNotFoundError when the briefs (or those the filter
\* selects) or the authority texts are missing; the aborted run and the
\* skipped run make no call, write nothing and take no further step, and the
\* report is written only by a run that had its briefs and authorities.
MissingPrerequisiteAbortsUnlessSkipped ==
  /\ [](pc # "start" =>
          /\ (env.citecheck_md = "written" /\ env.brief_filter = "none")
               <=> pc = "skipped"
          /\ (PrerequisiteMissing /\ pc # "skipped") => pc = "FileNotFoundError"
          /\ pc \in {"skipped", "FileNotFoundError"} => NothingDone
          /\ pc = "done" => ~PrerequisiteMissing)
  /\ [][EndedRunStops]_vars

\* a run without authority texts has aborted although a report of an
\* earlier run exists, because a brief filter was given
MissingPrerequisiteWitness ==
  /\ pc = "FileNotFoundError"
  /\ env.citecheck_md = "written" /\ env.brief_filter = "match"
  /\ env.briefs = NumBriefs /\ env.authorities = 0


\* the steps a run is to attempt: those it planned, without fetch when no
\* case number is given
ToAttempt ==
  SelectSeq(pipe.planned, LAMBDA n : n # "fetch" \/ pipe.case_number)

\* the run has ended and no runner raised or was interrupted
EndedUnfailed == pc \in {"returned", "KeyError"}

\* C26: a full run (no single step, no resume) in which every runner
\* returns normally attempts every step of STEP_NAMES in canonical order
\* and ends with every step completed (fetch skipped when no case number is
\* given); every name of STEP_NAMES has a runner.
FullRunCompletesAll ==
  (EndedUnfailed /\ pipe.runs > 0 /\ pipe.single_step = Null /\ ~pipe.resume)
    => /\ pipe.planned = STEP_NAMES
       /\ pipe.attempted = ToAttempt
       /\ \A i \in DOMAIN STEP_NAMES :
            /\ STEP_NAMES[i] \in STEP_RUNNERS
            /\ state[STEP_NAMES[i]].status =
                 IF STEP_NAMES[i] = "fetch" /\ ~pipe.case_number THEN "skipped"
                 ELSE "completed"

\* the names of STEP_NAMES from name on
From(name) ==
  SubSeq(STEP_NAMES, CHOOSE i \in DOMAIN STEP_NAMES : STEP_NAMES[i] = name,
         Len(STEP_NAMES))

\* a resumed run plans the steps from the first incomplete one on, and
\* nothing when there is none
ResumePlans ==
  (pipe'.runs # pipe.runs /\ pipe'.resume)
    => pipe'.planned = IF first_incomplete(state) = Null THEN <<>>
                       ELSE From(first_incomplete(state))

\* a resumed run changes the status of planned steps only, and runs them in
\* the order of the plan
ResumeFrame ==
  pipe'.resume =>
    /\ \A i \in DOMAIN STEP_NAMES :
         state'[STEP_NAMES[i]] # state[STEP_NAMES[i]]
           => \E k \in DOMAIN pipe'.planned : pipe'.planned[k] = STEP_NAMES[i]
    /\ \E k \in 0..Len(ToAttempt') : pipe'.attempted = SubSeq(ToAttempt', 1, k)

\* C29: with resume the pipeline starts at the first step in canonical
\* order whose status is neither completed nor skipped and attempts the
\* steps from there onward in canonical order; no step before that point is
\* run or has its status changed, and when no step is incomplete nothing is
\* run.
ResumeRunsTheRest ==
  /\ [][ResumePlans]_vars
  /\ [][ResumeFrame]_vars
  /\ []((EndedUnfailed /\ pipe.resume) => pipe.attempted = ToAttempt)

\* a step that ends in the handlers of run_pipeline: the step is marked
\* failed with the error text, nothing else changes, and the run is over
FailureMarked ==
  (pc = "runner" /\ pc' \in {"raised", "exit"})
    => LET step == Head(pipe.steps_to_run) IN
         /\ state'[step].status = "failed"
         /\ state'[step].error # Null
         /\ pc' = "exit" => state'[step].error = "Interrupted by user"
         /\ \A i \in DOMAIN STEP_NAMES :
              STEP_NAMES[i] # step => state'[STEP_NAMES[i]] = state[STEP_NAMES[i]]
         /\ pipe' = pipe

\* the status completed is written for the step whose runner was running
\* and has returned, and for no other
CompletedOnReturn ==
  \A i \in DOMAIN STEP_NAMES :
    (state'[STEP_NAMES[i]].status = "completed"
       /\ state[STEP_NAMES[i]].status # "completed")
      => /\ pc = "runner" /\ pc' = "loop"
         /\ STEP_NAMES[i] = Head(pipe.steps_to_run)
         /\ state[STEP_NAMES[i]].status = "running"

\* after a failed step the run starts no step: the next change is another
\* invocation
NothingAfterFailure ==
  pc \in {"raised", "exit"} => pipe'.runs = pipe.runs + 1

\* C30: a step is saved as running before its runner is invoked and as
\* completed only after the runner returned; if the runner raises or is
\* interrupted the step is saved as failed with the error text, no later
\* step is started in that run and the statuses of all later steps are
\* unchanged.
StepStatusFollowsRunner ==
  /\ [](pc = "runner" =>
          /\ state[Head(pipe.steps_to_run)].status = "running"
          /\ pipe.attempted # <<>>
          /\ pipe.attempted[Len(pipe.attempted)] = Head(pipe.steps_to_run))
  /\ [](pc \in {"raised", "exit"} =>
          /\ state[Head(pipe.steps_to_run)].status = "failed"
          /\ pipe.attempted[Len(pipe.attempted)] = Head(pipe.steps_to_run))
  /\ [][CompletedOnReturn]_vars
  /\ [][FailureMarked]_vars
  /\ [][NothingAfterFailure]_vars

\* the third step of a full run has raised after two steps completed, and
\* the steps after it are still pending
StepStatusWitness ==
  /\ pc = "raised" /\ pipe.single_step = Null /\ ~pipe.resume /\ pipe.runs = 1
  /\ state["convert"].status = "completed"
  /\ state["authorities"].status = "failed"
  /\ state["authorities"].error = "exit status 1"
  /\ \A i \in 4..Len(STEP_NAMES) : state[STEP_NAMES[i]].status = "pending"

=============================================================================
